---- MODULE Spec2Model ----
(***************************************************************************)
(* Multi-floor pathfinding of the building concierge (src/lib/pathfinding  *)
(* .ts): floor schema normalizer, graph assembler, Dijkstra shortest-path  *)
(* engine and the room query layer built on it.                            *)
(*                                                                         *)
(* Strings on which the code works character by character (node ids, room *)
(* types, id prefixes and suffixes) are sequences of one-character         *)
(* strings, so that toLowerCase, toUpperCase, includes and template        *)
(* concatenation are computed and not assumed.  Floor keys and floor       *)
(* labels are only compared or copied and stay plain strings.              *)
(***************************************************************************)
EXTENDS Integers, Sequences, FiniteSets, TLC

VARIABLES floorData, allNodes, nodeMap, adjacency, lastCall, result,
          search, rateLimitStore, now, streaming, admitted

vars == <<floorData, allNodes, nodeMap, adjacency, lastCall, result,
          search, rateLimitStore, now, streaming, admitted>>

\* the state of the chat endpoint (src/app/api/chat/route.ts)
routeVars == <<rateLimitStore, now, streaming, admitted>>

(***************************************************************************)
(* Bounds of the model.                                                    *)
(***************************************************************************)
\* raw edge distances range over 0..MaxDist (besides "absent")
MaxDist == 2

\* at most MaxInFlight admitted requests of one client stream at a time
MaxInFlight == 21

(***************************************************************************)
(* JavaScript values and string primitives.                                *)
(***************************************************************************)
\* Number.POSITIVE_INFINITY as used for tentative distances
Infinity == -1

\* `null` in a number-or-null position (area)
Null == -1

\* a < b on numbers extended with Infinity
LessThan(a, b) == a # Infinity /\ (b = Infinity \/ a < b)

\* a + b on numbers extended with Infinity
\* variant: the edge distance is left out of the new tentative distance
PlusWithoutEdge(a, b) == a

Plus(a, b) == IF a = Infinity \/ b = Infinity THEN Infinity ELSE a + b

UpperLetters ==
    <<"A", "B", "C", "D", "E", "F", "G", "H", "I", "J", "K", "L", "M",
      "N", "O", "P", "Q", "R", "S", "T", "U", "V", "W", "X", "Y", "Z">>

LowerLetters ==
    <<"a", "b", "c", "d", "e", "f", "g", "h", "i", "j", "k", "l", "m",
      "n", "o", "p", "q", "r", "s", "t", "u", "v", "w", "x", "y", "z">>

LetterIndex(letters, c) ==
    IF \E i \in 1..Len(letters) : letters[i] = c
    THEN CHOOSE i \in 1..Len(letters) : letters[i] = c
    ELSE 0

LowerChar(c) ==
    IF LetterIndex(UpperLetters, c) # 0 THEN LowerLetters[LetterIndex(UpperLetters, c)] ELSE c

UpperChar(c) ==
    IF LetterIndex(LowerLetters, c) # 0 THEN UpperLetters[LetterIndex(LowerLetters, c)] ELSE c

\* String.prototype.toLowerCase
ToLowerCase(s) == [i \in 1..Len(s) |-> LowerChar(s[i])]

\* String.prototype.toUpperCase
ToUpperCase(s) == [i \in 1..Len(s) |-> UpperChar(s[i])]

\* String.prototype.includes
Includes(s, sub) ==
    \E i \in 0..(Len(s) - Len(sub)) : SubSeq(s, i + 1, i + Len(sub)) = sub

\* elements of a sequence
Range(seq) == {seq[i] : i \in 1..Len(seq)}

(***************************************************************************)
(* Floor metadata.                                                         *)
(***************************************************************************)
FLOORS == <<
    [id |-> "A00", floorNum |-> "0", label |-> "Ground Floor (EG)", prefix |-> <<"0">>],
    [id |-> "A01", floorNum |-> "1", label |-> "Floor 1 (OG1)",     prefix |-> <<"1">>],
    [id |-> "A02", floorNum |-> "2", label |-> "Floor 2 (OG2)",     prefix |-> <<"2">>],
    [id |-> "A03", floorNum |-> "3", label |-> "Floor 3 (OG3)",     prefix |-> <<"3">>],
    [id |-> "4",   floorNum |-> "4", label |-> "Floor 4 (OG4)",     prefix |-> <<"4">>],
    [id |-> "5",   floorNum |-> "5", label |-> "Floor 5 (OG5)",     prefix |-> <<"5">>] >>

\* position of a floor key in the ascending string order used by sort()
FloorRank(f) == CHOOSE i \in 1..Len(FLOORS) : FLOORS[i].floorNum = f

STAIRWELL_SUFFIXES ==
    << <<"K","0","4","1">>, <<"K","1","2","1">>, <<"K","1","9","1">>, <<"K","2","6","2">> >>

LIFT_VESTIBULE_SUFFIXES ==
    << <<"K","0","4","2">>, <<"K","1","2","2">>, <<"K","1","9","2">>, <<"K","2","7","1">> >>

STAIR_FLOOR_CHANGE_DISTANCE == 15

LIFT_FLOOR_CHANGE_DISTANCE == 10

(***************************************************************************)
(* Normalizer.  A raw record is a function whose domain holds exactly the  *)
(* fields the floor's JSON supplies; an omitted field is outside DOMAIN.   *)
(***************************************************************************)
Unknown == <<"U","n","k","n","o","w","n">>

Has(r, field) == field \in DOMAIN r

\* a field is present and truthy: a string field is truthy unless empty
Truthy(r, field) == Has(r, field) /\ r[field] # <<>>

\* \s of the label pattern and of trim(), for the characters of the model
IsSpace(c) == c \in {" ", "\n", "\t"}

\* length of the run of white space a string starts with
RECURSIVE SpaceRun(_)
SpaceRun(str) ==
    IF str = <<>> \/ ~IsSpace(Head(str)) THEN 0 ELSE 1 + SpaceRun(Tail(str))

RECURSIVE Reverse(_)
Reverse(str) == IF str = <<>> THEN <<>> ELSE Append(Reverse(Tail(str)), Head(str))

\* String.prototype.trim
Trim(str) ==
    SubSeq(str, SpaceRun(str) + 1, Len(str) - SpaceRun(Reverse(str)))

\* length of the match of /[\n]|(?:\s+-\s+)/ at the start of str, 0 if none
DelimiterAt(str) ==
    IF str = <<>> THEN 0
    ELSE IF Head(str) = "\n" THEN 1
    ELSE LET lead  == SpaceRun(str)
             after == SubSeq(str, lead + 2, Len(str))
         IN  IF lead > 0 /\ lead < Len(str) /\ str[lead + 1] = "-" /\ SpaceRun(after) > 0
             THEN lead + 1 + SpaceRun(after)
             ELSE 0

\* label_raw.split(/[\n]|(?:\s+-\s+)/); acc is the segment being read
RECURSIVE SplitLabel(_, _)
SplitLabel(str, acc) ==
    IF str = <<>> THEN <<acc>>
    ELSE IF DelimiterAt(str) > 0
         THEN <<acc>> \o SplitLabel(SubSeq(str, DelimiterAt(str) + 1, Len(str)), <<>>)
         ELSE SplitLabel(Tail(str), Append(acc, Head(str)))

\* label.indexOf(" "), counted from 1; 0 when there is no space
IndexOfSpace(str) ==
    IF \E i \in 1..Len(str) : str[i] = " "
    THEN CHOOSE i \in 1..Len(str) : str[i] = " " /\ \A j \in 1..(i - 1) : str[j] # " "
    ELSE 0

\* lines 96-97: parts.length > 1 ? parts[1].trim() : parts[0].trim()
NameFromLabelRaw(labelRaw) ==
    LET parts == SplitLabel(labelRaw, <<>>)
    IN  IF Len(parts) > 1 THEN Trim(parts[2]) ELSE Trim(parts[1])

\* lines 100-101
NameFromLabel(label) ==
    IF IndexOfSpace(label) > 0
    THEN Trim(SubSeq(label, IndexOfSpace(label) + 1, Len(label)))
    ELSE label

\* variant: the first segment of the raw label is taken
NodeNameFirstSegment(n) ==
    LET fromName == IF Truthy(n, "name") THEN n.name ELSE <<>>
        fromRaw  == IF fromName = <<>> /\ Truthy(n, "label_raw")
                    THEN Trim(SplitLabel(n.label_raw, <<>>)[1]) ELSE fromName
    IN  IF fromRaw = <<>> /\ Truthy(n, "label")
        THEN NameFromLabel(n.label) ELSE fromRaw

\* lines 93-102: n.name || "", then the two fallbacks while name is empty
NodeName(n) ==
    LET fromName == IF Truthy(n, "name") THEN n.name ELSE <<>>
        fromRaw  == IF fromName = <<>> /\ Truthy(n, "label_raw")
                    THEN NameFromLabelRaw(n.label_raw) ELSE fromName
    IN  IF fromRaw = <<>> /\ Truthy(n, "label")
        THEN NameFromLabel(n.label) ELSE fromRaw

NormalizeNode(n, floorInfo) ==
    [id         |-> n.id,
     name       |-> NodeName(n),
     roomType   |-> IF Has(n, "room_type") /\ n.room_type # <<>> THEN n.room_type ELSE Unknown,
     area       |-> IF Has(n, "area_m2") THEN n.area_m2 ELSE Null,
     floor      |-> floorInfo.floorNum,
     floorLabel |-> floorInfo.label]

normalizeNodes(data, f) ==
    [i \in 1..Len(data[f].nodes) |-> NormalizeNode(data[f].nodes[i], FLOORS[f])]

\* variant: the distance is defaulted with || instead of ??
NormalizeEdgeFalsyDistance(e) ==
    [source        |-> e.source,
     target        |-> e.target,
     bidirectional |-> IF Has(e, "bidirectional") THEN e.bidirectional # FALSE ELSE TRUE,
     distance      |-> IF Has(e, "distance_m") /\ e.distance_m # 0 THEN e.distance_m ELSE 10]

NormalizeEdge(e) ==
    [source        |-> e.source,
     target        |-> e.target,
     bidirectional |-> IF Has(e, "bidirectional") THEN e.bidirectional # FALSE ELSE TRUE,
     distance      |-> IF Has(e, "distance_m") THEN e.distance_m ELSE 10]

normalizeEdges(data, f) ==
    [i \in 1..Len(data[f].edges) |-> NormalizeEdge(data[f].edges[i])]

(***************************************************************************)
(* Graph assembler.  A Map is a function on its key set; nodeMap and the   *)
(* adjacency maps are only read by key, so their insertion order is not    *)
(* kept.  allNodes keeps the array order.                                  *)
(***************************************************************************)
EmptyMap == <<>>

MapSet(m, k, v) == (k :> v) @@ m

RECURSIVE ConcatFloors(_, _)
ConcatFloors(data, f) ==
    IF f > Len(FLOORS) THEN <<>>
    ELSE normalizeNodes(data, f) \o ConcatFloors(data, f + 1)

\* step 1: allNodes.push(node) for every floor in FLOORS order
BuildAllNodes(data) == ConcatFloors(data, 1)

\* step 1: nodeMap.set(node.id, node); a later record replaces an earlier one
BuildNodeMap(nodes) ==
    [id \in {nodes[i].id : i \in 1..Len(nodes)} |->
        nodes[CHOOSE i \in 1..Len(nodes) :
                 /\ nodes[i].id = id
                 /\ \A j \in 1..Len(nodes) : nodes[j].id = id => j <= i]]

\* step 1: adjacency.set(node.id, new Map())
EmptyAdjacency(nodes) == [id \in {nodes[i].id : i \in 1..Len(nodes)} |-> EmptyMap]

\* mutant of LinkEdge: the reverse entry of a bidirectional edge is not added
LinkEdgeForwardOnly(adj, edge) ==
    [adj EXCEPT ![edge.source] = MapSet(@, edge.target, edge.distance)]

\* adjacency.get(source).set(target, distance), and the reverse if bidirectional
LinkEdge(adj, edge) ==
    LET fwd == [adj EXCEPT ![edge.source] = MapSet(@, edge.target, edge.distance)]
    IN  IF edge.bidirectional
        THEN [fwd EXCEPT ![edge.target] = MapSet(@, edge.source, edge.distance)]
        ELSE fwd

\* variant: only the source endpoint is looked up
AddIntraEdgeSourceOnly(adj, edge) ==
    IF edge.source \in DOMAIN adj
    THEN LinkEdge(adj, edge)
    ELSE adj

\* step 2: an intra-floor edge is kept only when both endpoints are known
AddIntraEdge(adj, edge) ==
    IF edge.source \in DOMAIN adj /\ edge.target \in DOMAIN adj
    THEN LinkEdge(adj, edge)
    ELSE adj

RECURSIVE AddIntraEdges(_, _)
AddIntraEdges(adj, edges) ==
    IF edges = <<>> THEN adj
    ELSE AddIntraEdges(AddIntraEdge(adj, Head(edges)), Tail(edges))

RECURSIVE AddFloorEdges(_, _, _)
AddFloorEdges(adj, data, f) ==
    IF f > Len(FLOORS) THEN adj
    ELSE AddFloorEdges(AddIntraEdges(adj, normalizeEdges(data, f)), data, f + 1)

\* the edges one suffix list contributes between two neighbouring prefixes
RECURSIVE SuffixEdges(_, _, _, _, _)
SuffixEdges(nm, lowerPrefix, upperPrefix, suffixes, dist) ==
    IF suffixes = <<>> THEN <<>>
    ELSE LET lowerNodeId == lowerPrefix \o Head(suffixes)
             upperNodeId == upperPrefix \o Head(suffixes)
             rest == SuffixEdges(nm, lowerPrefix, upperPrefix, Tail(suffixes), dist)
         IN  IF lowerNodeId \in DOMAIN nm /\ upperNodeId \in DOMAIN nm
             THEN << [source |-> lowerNodeId, target |-> upperNodeId,
                      bidirectional |-> TRUE, distance |-> dist] >> \o rest
             ELSE rest

\* FLOORS.map(f => f.prefix).sort(): the prefixes "0".."5" are already ascending
floorPrefixes == [i \in 1..Len(FLOORS) |-> FLOORS[i].prefix]

RECURSIVE InterFloorFrom(_, _)
InterFloorFrom(nm, i) ==
    IF i > Len(floorPrefixes) - 1 THEN <<>>
    ELSE SuffixEdges(nm, floorPrefixes[i], floorPrefixes[i + 1],
                     STAIRWELL_SUFFIXES, STAIR_FLOOR_CHANGE_DISTANCE)
         \o SuffixEdges(nm, floorPrefixes[i], floorPrefixes[i + 1],
                        LIFT_VESTIBULE_SUFFIXES, LIFT_FLOOR_CHANGE_DISTANCE)
         \o InterFloorFrom(nm, i + 1)

\* mutant of buildInterFloorEdges: the stairwell suffixes are never linked
RECURSIVE LiftOnlyFrom(_, _)
LiftOnlyFrom(nm, i) ==
    IF i > Len(floorPrefixes) - 1 THEN <<>>
    ELSE SuffixEdges(nm, floorPrefixes[i], floorPrefixes[i + 1],
                     LIFT_VESTIBULE_SUFFIXES, LIFT_FLOOR_CHANGE_DISTANCE)
         \o LiftOnlyFrom(nm, i + 1)

buildInterFloorEdgesLiftOnly(nm) == LiftOnlyFrom(nm, 1)

buildInterFloorEdges(nm) == InterFloorFrom(nm, 1)

RECURSIVE AddInterEdges(_, _)
AddInterEdges(adj, edges) ==
    IF edges = <<>> THEN adj
    ELSE AddInterEdges(LinkEdge(adj, Head(edges)), Tail(edges))

\* initializeGraph: the three module-level tables built from the floor data
initializeGraph(data) ==
    LET nodes == BuildAllNodes(data)
        nm    == BuildNodeMap(nodes)
        intra == AddFloorEdges(EmptyAdjacency(nodes), data, 1)
    IN  [allNodes  |-> nodes,
         nodeMap   |-> nm,
         adjacency |-> AddInterEdges(intra, buildInterFloorEdges(nm))]

(***************************************************************************)
(* Shortest-path engine.                                                   *)
(***************************************************************************)
\* `null` in a string-or-null position; no character sequence equals it
NullId == <<"null">>

NotFound ==
    [found |-> FALSE, path |-> <<>>, pathDetails |-> <<>>, totalDistance |-> 0,
     steps |-> <<>>, crossesFloors |-> FALSE, floorsTraversed |-> <<>>]

\* mutant of ResolveId: the ids are compared as spelled
ResolveIdExact(id) ==
    LET hits == {i \in 1..Len(allNodes) : allNodes[i].id = id}
    IN  IF hits = {} THEN NullId
        ELSE allNodes[CHOOSE i \in hits : \A j \in hits : i <= j].id

\* allNodes.find(n => n.id.toLowerCase() === id.toLowerCase())?.id
ResolveId(id) ==
    LET hits == {i \in 1..Len(allNodes) : ToLowerCase(allNodes[i].id) = ToLowerCase(id)}
    IN  IF hits = {} THEN NullId
        ELSE allNodes[CHOOSE i \in hits : \A j \in hits : i <= j].id

\* !normalizedStart: undefined and the empty string are both falsy
Falsy(id) == id = NullId \/ id = <<>>

\* the ids of allNodes in the order a Set keeps them: first insertion
RECURSIVE InsertionOrder(_, _)
InsertionOrder(nodes, seen) ==
    IF nodes = <<>> THEN <<>>
    ELSE IF Head(nodes).id \in seen THEN InsertionOrder(Tail(nodes), seen)
         ELSE <<Head(nodes).id>> \o InsertionOrder(Tail(nodes), seen \cup {Head(nodes).id})

\* mutant of InitSearch: the start's tentative distance is left at Infinity
InitSearchNoZero(normalizedStart) ==
    LET ids == {allNodes[i].id : i \in 1..Len(allNodes)}
    IN  [distances |-> [id \in ids |-> Infinity],
         previous  |-> [id \in ids |-> NullId],
         unvisited |-> InsertionOrder(allNodes, {})]

\* distances, previous and unvisited as set up before the search loop
InitSearch(normalizedStart) ==
    LET ids == {allNodes[i].id : i \in 1..Len(allNodes)}
    IN  [distances |-> [id \in ids |-> IF id = normalizedStart THEN 0 ELSE Infinity],
         previous  |-> [id \in ids |-> NullId],
         unvisited |-> InsertionOrder(allNodes, {})]

\* mutant of ScanMin: settles for the first unvisited node of finite distance
ScanMinFirst(unvisitedArr, distances, minNode, minDistance) ==
    LET finite == {i \in 1..Len(unvisitedArr) : distances[unvisitedArr[i]] # Infinity}
    IN  IF finite = {} THEN [minNode |-> minNode, minDistance |-> minDistance]
        ELSE LET i == CHOOSE k \in finite : \A j \in finite : k <= j
             IN  [minNode |-> unvisitedArr[i], minDistance |-> distances[unvisitedArr[i]]]

\* the linear scan for the unvisited node of least tentative distance
RECURSIVE ScanMin(_, _, _, _)
ScanMin(unvisitedArr, distances, minNode, minDistance) ==
    IF unvisitedArr = <<>> THEN [minNode |-> minNode, minDistance |-> minDistance]
    ELSE LET nodeId == Head(unvisitedArr)
             dist   == distances[nodeId]
         IN  IF LessThan(dist, minDistance)
             THEN ScanMin(Tail(unvisitedArr), distances, nodeId, dist)
             ELSE ScanMin(Tail(unvisitedArr), distances, minNode, minDistance)

\* mutant of Relax: a neighbour's distance is overwritten without comparing
RelaxAlways(st, minNode) ==
    LET rest      == SelectSeq(st.unvisited, LAMBDA id : id # minNode)
        neighbors == adjacency[minNode]
        touched(n) == n \in DOMAIN neighbors /\ n \in Range(rest)
    IN  [distances |-> [n \in DOMAIN st.distances |->
                           IF touched(n) THEN Plus(st.distances[minNode], neighbors[n])
                           ELSE st.distances[n]],
         previous  |-> [n \in DOMAIN st.previous |->
                           IF touched(n) THEN minNode ELSE st.previous[n]],
         unvisited |-> rest]

\* unvisited.delete(minNode) followed by the relaxation of minNode's neighbours;
\* the neighbours are distinct keys, so the order of the entries is immaterial
Relax(st, minNode) ==
    LET rest      == SelectSeq(st.unvisited, LAMBDA id : id # minNode)
        neighbors == adjacency[minNode]
        improves(n) == /\ n \in DOMAIN neighbors
                       /\ n \in Range(rest)
                       /\ LessThan(Plus(st.distances[minNode], neighbors[n]), st.distances[n])
    IN  [distances |-> [n \in DOMAIN st.distances |->
                           IF improves(n) THEN Plus(st.distances[minNode], neighbors[n])
                           ELSE st.distances[n]],
         previous  |-> [n \in DOMAIN st.previous |->
                           IF improves(n) THEN minNode ELSE st.previous[n]],
         unvisited |-> rest]

\* while (unvisited.size > 0) { ... }
RECURSIVE SearchLoop(_, _)
SearchLoop(st, normalizedEnd) ==
    IF Len(st.unvisited) = 0 THEN st
    ELSE LET m == ScanMin(st.unvisited, st.distances, NullId, Infinity)
         IN  IF m.minNode = NullId \/ m.minDistance = Infinity THEN st
             ELSE IF m.minNode = normalizedEnd THEN st
             ELSE SearchLoop(Relax(st, m.minNode), normalizedEnd)

\* while (current !== null) { path.unshift(current); current = previous.get(current) }
RECURSIVE Reconstruct(_, _, _)
Reconstruct(previous, current, path) ==
    IF current = NullId THEN path
    ELSE Reconstruct(previous, previous[current], <<current>> \o path)

\* mutant of StartNotReached: the reconstructed chain is never rejected
StartNotReachedNever(path, normalizedStart) == FALSE

\* path[0] !== normalizedStart: the chain did not lead back to the start
StartNotReached(path, normalizedStart) == path[1] # normalizedStart

NodeInfo(n) ==
    [id |-> n.id, roomType |-> n.roomType, area |-> n.area,
     floor |-> n.floor, floorLabel |-> n.floorLabel]

\* mutant of Step: the floor of the source node is compared with itself
StepSameNode(path, i) ==
    LET fromNode == nodeMap[path[i]]
        toNode   == nodeMap[path[i + 1]]
    IN  [from          |-> path[i],
         fromType      |-> fromNode.roomType,
         fromFloor     |-> fromNode.floorLabel,
         to            |-> path[i + 1],
         toType        |-> toNode.roomType,
         toFloor       |-> toNode.floorLabel,
         distance      |-> IF path[i + 1] \in DOMAIN adjacency[path[i]]
                           THEN adjacency[path[i]][path[i + 1]] ELSE 0,
         isFloorChange |-> fromNode.floor # fromNode.floor]

\* the entry steps.push builds for the hop path[i] -> path[i + 1]
Step(path, i) ==
    LET fromNode == nodeMap[path[i]]
        toNode   == nodeMap[path[i + 1]]
    IN  [from          |-> path[i],
         fromType      |-> fromNode.roomType,
         fromFloor     |-> fromNode.floorLabel,
         to            |-> path[i + 1],
         toType        |-> toNode.roomType,
         toFloor       |-> toNode.floorLabel,
         distance      |-> IF path[i + 1] \in DOMAIN adjacency[path[i]]
                           THEN adjacency[path[i]][path[i + 1]] ELSE 0,
         isFloorChange |-> fromNode.floor # toNode.floor]

\* variant: the floor keys come out in descending order
RECURSIVE SortFloorsDescending(_)
SortFloorsDescending(floorsSet) ==
    IF floorsSet = {} THEN <<>>
    ELSE LET greatest == CHOOSE f \in floorsSet :
                             \A g \in floorsSet : FloorRank(g) <= FloorRank(f)
         IN  <<greatest>> \o SortFloorsDescending(floorsSet \ {greatest})

\* Array.from(floorsSet).sort() on floor keys
RECURSIVE SortFloors(_)
SortFloors(floorsSet) ==
    IF floorsSet = {} THEN <<>>
    ELSE LET least == CHOOSE f \in floorsSet :
                          \A g \in floorsSet : FloorRank(f) <= FloorRank(g)
         IN  <<least>> \o SortFloors(floorsSet \ {least})

\* what findShortestPath returns once the path is reconstructed
PathResultOf(path, normalizedStart, totalDistance) ==
    IF StartNotReached(path, normalizedStart) THEN NotFound
    ELSE
      LET floorsTraversed ==
              SortFloors({nodeMap[path[i]].floor : i \in 1..Len(path)})
      IN  [found           |-> TRUE,
           path            |-> path,
           pathDetails     |-> [i \in 1..Len(path) |-> NodeInfo(nodeMap[path[i]])],
           totalDistance   |-> totalDistance,
           steps           |-> [i \in 1..(Len(path) - 1) |-> Step(path, i)],
           crossesFloors   |-> Len(floorsTraversed) > 1,
           floorsTraversed |-> floorsTraversed]

findShortestPath(startId, endId) ==
    LET normalizedStart == ResolveId(startId)
        normalizedEnd   == ResolveId(endId)
    IN  IF Falsy(normalizedStart) \/ Falsy(normalizedEnd) THEN NotFound
        ELSE
          LET st   == SearchLoop(InitSearch(normalizedStart), normalizedEnd)
              path == Reconstruct(st.previous, normalizedEnd, <<>>)
          IN  PathResultOf(path, normalizedStart, st.distances[normalizedEnd])

(***************************************************************************)
(* Room query layer.                                                       *)
(***************************************************************************)
\* `null` / `undefined` in an object-or-null position
NullResult == [isNull |-> TRUE]

IsNull(r) == "isNull" \in DOMAIN r

MapNodeInfo(nodes) == [i \in 1..Len(nodes) |-> NodeInfo(nodes[i])]

getRoomsByType(roomType) ==
    LET typeLower == ToLowerCase(roomType)
    IN  MapNodeInfo(SelectSeq(allNodes,
            LAMBDA n : Includes(ToLowerCase(n.roomType), typeLower)))

getRoomsByTypeOnFloor(roomType, floor) ==
    LET typeLower == ToLowerCase(roomType)
    IN  MapNodeInfo(SelectSeq(allNodes,
            LAMBDA n : Includes(ToLowerCase(n.roomType), typeLower) /\ n.floor = floor))

\* mutant of BestPath: every found path replaces the best one so far
RECURSIVE BestPathLast(_, _, _)
BestPathLast(startId, rooms, bestPath) ==
    IF rooms = <<>> THEN bestPath
    ELSE LET path == findShortestPath(startId, Head(rooms).id)
         IN  IF path.found
             THEN BestPathLast(startId, Tail(rooms), path)
             ELSE BestPathLast(startId, Tail(rooms), bestPath)

\* the loop shared by both nearest searches: keep the first found path and
\* replace it only by a strictly shorter one
RECURSIVE BestPath(_, _, _)
BestPath(startId, rooms, bestPath) ==
    IF rooms = <<>> THEN bestPath
    ELSE LET path == findShortestPath(startId, Head(rooms).id)
         IN  IF path.found /\ (IsNull(bestPath) \/ path.totalDistance < bestPath.totalDistance)
             THEN BestPath(startId, Tail(rooms), path)
             ELSE BestPath(startId, Tail(rooms), bestPath)

findNearestOfType(startId, roomType) ==
    LET targetRooms == getRoomsByType(roomType)
    IN  IF Len(targetRooms) = 0 THEN NullResult
        ELSE BestPath(startId, targetRooms, NullResult)

\* nodeMap.get(startId.toUpperCase()) ?? nodeMap.get(startId)
LookupNode(id) ==
    IF ToUpperCase(id) \in DOMAIN nodeMap THEN nodeMap[ToUpperCase(id)]
    ELSE IF id \in DOMAIN nodeMap THEN nodeMap[id]
    ELSE NullResult

findNearestOfTypeSameFloor(startId, roomType) ==
    LET startNode == LookupNode(startId)
    IN  IF IsNull(startNode) THEN findNearestOfType(startId, roomType)
        ELSE LET sameFloorRooms == getRoomsByTypeOnFloor(roomType, startNode.floor)
                 bestPath == BestPath(startId, sameFloorRooms, NullResult)
             IN  IF ~IsNull(bestPath) THEN bestPath
                 ELSE findNearestOfType(startId, roomType)

\* mutant of findRoom: the name is not searched
findRoomNoName(query) ==
    LET queryLower == ToLowerCase(query)
    IN  MapNodeInfo(SelectSeq(allNodes,
            LAMBDA n : \/ Includes(ToLowerCase(n.id), queryLower)
                       \/ Includes(ToLowerCase(n.roomType), queryLower)))

findRoom(query) ==
    LET queryLower == ToLowerCase(query)
    IN  MapNodeInfo(SelectSeq(allNodes,
            LAMBDA n : \/ Includes(ToLowerCase(n.id), queryLower)
                       \/ Includes(ToLowerCase(n.name), queryLower)
                       \/ Includes(ToLowerCase(n.roomType), queryLower)))

\* the characters of the model in ascending UTF-16 code unit order
CodeOrder ==
    <<" ", "-", "0", "1", "2", "3", "4", "5", "6", "7", "8", "9">>
    \o UpperLetters \o LowerLetters

CharCode(c) == CHOOSE i \in 1..Len(CodeOrder) : CodeOrder[i] = c

\* a < b in the default comparison of Array.prototype.sort on strings
RECURSIVE StringLess(_, _)
StringLess(a, b) ==
    IF b = <<>> THEN FALSE
    ELSE IF a = <<>> THEN TRUE
    ELSE IF Head(a) = Head(b) THEN StringLess(Tail(a), Tail(b))
    ELSE CharCode(Head(a)) < CharCode(Head(b))

\* Array.from(set).sort() on strings
RECURSIVE SortStrings(_)
SortStrings(S) ==
    IF S = {} THEN <<>>
    ELSE LET least == CHOOSE x \in S : \A y \in S : x = y \/ StringLess(x, y)
         IN  <<least>> \o SortStrings(S \ {least})

getAllRoomTypes == SortStrings({allNodes[i].roomType : i \in 1..Len(allNodes)})

getRoomsOnFloor(floor) == MapNodeInfo(SelectSeq(allNodes, LAMBDA n : n.floor = floor))

getAllRooms == MapNodeInfo(allNodes)

\* node?.floor ?? null; a found floor is returned as [value |-> floor]
getFloorForRoom(roomId) ==
    LET node == LookupNode(roomId)
    IN  IF IsNull(node) THEN NullResult ELSE [value |-> node.floor]

getFloorLabel(floorNum) ==
    LET hits == {i \in 1..Len(FLOORS) : FLOORS[i].floorNum = floorNum}
    IN  IF hits = {} THEN "Floor " \o floorNum
        ELSE FLOORS[CHOOSE i \in hits : \A j \in hits : i <= j].label

getAllFloors ==
    [i \in 1..Len(FLOORS) |-> [floorNum |-> FLOORS[i].floorNum, label |-> FLOORS[i].label]]

(***************************************************************************)
(* Path formatter.  The returned text is kept as the sequence of its       *)
(* lines, each line as a record of the values interpolated into it.        *)
(***************************************************************************)
\* Math.round; tentative distances of the model are integers
MathRound(x) == x

NotFoundText == <<[kind |-> "PATH_NOT_FOUND"]>>

\* variant: every step is rendered as a same-floor hop
StepLineHopOnly(step, i) ==
    [kind |-> "HOP", number |-> i,
     from |-> step.from, fromType |-> step.fromType,
     to |-> step.to, toType |-> step.toType, distance |-> step.distance]

\* the numbered line of step i
StepLine(step, i) ==
    IF step.isFloorChange
    THEN [kind |-> "FLOOR_CHANGE", number |-> i,
          from |-> step.from, fromType |-> step.fromType, fromFloor |-> step.fromFloor,
          to |-> step.to, toType |-> step.toType, toFloor |-> step.toFloor]
    ELSE [kind |-> "HOP", number |-> i,
          from |-> step.from, fromType |-> step.fromType,
          to |-> step.to, toType |-> step.toType, distance |-> step.distance]

\* room.area ? ` (${room.area}m2)` : "": null and 0 are both falsy
RoomLine(room) ==
    [kind |-> "ROOM", id |-> room.id, roomType |-> room.roomType,
     area |-> IF room.area = Null \/ room.area = 0 THEN <<>> ELSE <<room.area>>,
     floorLabel |-> room.floorLabel]

formatPathForAI(r) ==
    IF ~r.found THEN NotFoundText
    ELSE << [kind |-> "PATH_FOUND"],
            [kind |-> "TOTAL_DISTANCE", meters |-> MathRound(r.totalDistance)],
            [kind |-> "NUMBER_OF_STEPS", count |-> Len(r.steps)],
            [kind |-> "CROSSES_FLOORS", text |-> IF r.crossesFloors THEN "YES" ELSE "No"] >>
         \o (IF r.crossesFloors
             THEN <<[kind |-> "FLOORS_TRAVERSED",
                     labels |-> [i \in 1..Len(r.floorsTraversed) |->
                                    getFloorLabel(r.floorsTraversed[i])]]>>
             ELSE <<>>)
         \o <<[kind |-> "BLANK"], [kind |-> "ROUTE"]>>
         \o [i \in 1..Len(r.steps) |-> StepLine(r.steps[i], i)]
         \o <<[kind |-> "BLANK"], [kind |-> "ROOMS_PASSED"]>>
         \o [i \in 1..Len(r.pathDetails) |-> RoomLine(r.pathDetails[i])]

(***************************************************************************)
(* Building summary, kept as its lines like the formatted path.            *)
(***************************************************************************)
\* typeCounts.sort((a, b) => b.count - a.count): stable, largest count first
RECURSIVE SortByCount(_)
SortByCount(typeCounts) ==
    IF typeCounts = <<>> THEN <<>>
    ELSE LET first == CHOOSE i \in 1..Len(typeCounts) :
                          /\ \A j \in 1..Len(typeCounts) :
                                typeCounts[j].count <= typeCounts[i].count
                          /\ \A j \in 1..(i - 1) :
                                typeCounts[j].count < typeCounts[i].count
         IN  <<typeCounts[first]>>
             \o SortByCount([k \in 1..(Len(typeCounts) - 1) |->
                                IF k < first THEN typeCounts[k] ELSE typeCounts[k + 1]])

getBuildingSummary ==
    LET rooms == getAllRooms
        types == getAllRoomTypes
        CountWhere(Test(_)) == Len(SelectSeq(rooms, Test))
        typeCounts == SortByCount([i \in 1..Len(types) |->
                          [type  |-> types[i],
                           count |-> CountWhere(LAMBDA r : r.roomType = types[i])]])
    IN  << [kind |-> "TITLE"],
           [kind |-> "TOTAL_ROOMS", count |-> Len(rooms)],
           [kind |-> "FLOORS", labels |-> [i \in 1..Len(FLOORS) |-> FLOORS[i].label]],
           [kind |-> "BLANK"] >>
        \o [i \in 1..Len(FLOORS) |->
               [kind |-> "FLOOR_ROOMS", label |-> FLOORS[i].label,
                count |-> CountWhere(LAMBDA r : r.floor = FLOORS[i].floorNum)]]
        \o << [kind |-> "ROOM_TYPES", types |-> types], [kind |-> "BLANK"],
              [kind |-> "ROOM_COUNTS_BY_TYPE"] >>
        \o [i \in 1..(IF Len(typeCounts) < 15 THEN Len(typeCounts) ELSE 15) |->
               [kind |-> "TYPE_COUNT", type |-> typeCounts[i].type,
                count |-> typeCounts[i].count]]

(***************************************************************************)
(* Floor data the module is loaded with.  The JSON files are data, not     *)
(* code: the model draws them from a bounded family of layouts (node       *)
(* lists per floor, in file order), edge shapes (which raw edges exist and *)
(* which optional fields they carry) and distances.  Node ids are unique   *)
(* under the engine's case-insensitive addressing, as the data model       *)
(* requires.                                                               *)
(***************************************************************************)
id1A010 == <<"1","A","0","1","0">>
id2a010 == <<"2","a","0","1","0">>
id2B020 == <<"2","B","0","2","0">>
id1K042 == <<"1","K","0","4","2">>
id2K042 == <<"2","K","0","4","2">>
id1B020 == <<"1","B","0","2","0">>
id1C030 == <<"1","C","0","3","0">>
id1K041 == <<"1","K","0","4","1">>
id2K041 == <<"2","K","0","4","1">>
id2A020 == <<"2","A","0","2","0">>
idZZZ999 == <<"Z","Z","Z","9","9","9">>

tyOffice == <<"O","f","f","i","c","e">>
tyStairs == <<"S","t","a","i","r","s">>
tyWC     == <<"W","C">>
tyWcMen  == <<"w","c"," ","m","e","n">>
tyLift   == <<"L","i","f","t">>
tyLab    == <<"L","a","b">>

nmWcBar  == <<"W","c","-","B","a","r">>

RawNode(id, type) == [id |-> id, room_type |-> type]

\* a layout: the raw nodes with the index of their floor in FLOORS, in file
\* order, and the endpoint pairs of the raw edges that may connect them
LayoutTwoFloor ==
    [nodes |-> << <<2, RawNode(id1A010, tyOffice)>>, <<2, RawNode(id1K041, tyStairs)>>,
                  <<3, RawNode(id2K041, tyStairs)>>, <<3, RawNode(id2A020, tyWC)>> >>,
     slots |-> << <<id1A010, id1K041>>, <<id2K041, id2A020>>, <<id1A010, id2A020>> >>]

LayoutOneFloor ==
    [nodes |-> << <<2, RawNode(id1A010, tyOffice)>>, <<2, RawNode(id1B020, tyWcMen)>>,
                  <<2, [id |-> id1C030, name |-> nmWcBar, area_m2 |-> 12]>>, <<2, RawNode(id1K041, tyWC)>> >>,
     slots |-> << <<id1A010, id1B020>>, <<id1B020, id1K041>>, <<id1K041, id1A010>> >>]

\* a stored id with a lower-case letter, next to a lift lobby pair
LayoutLowerCaseId ==
    [nodes |-> << <<2, RawNode(id1K042, tyWC)>>, <<3, RawNode(id2a010, tyOffice)>>,
                  <<3, RawNode(id2K042, tyLift)>>, <<3, RawNode(id2B020, tyWcMen)>> >>,
     slots |-> << <<id2K042, id2B020>>, <<id2a010, id2K042>>, <<id2a010, id2B020>> >>]

\* an edge from a node to itself, and a floor the others may not reach
LayoutSelfLoop ==
    [nodes |-> << <<2, RawNode(id1A010, tyWC)>>, <<2, RawNode(id1B020, tyOffice)>>,
                  <<3, RawNode(id2A020, tyWC)>> >>,
     slots |-> << <<id1A010, id1A010>>, <<id1A010, id1B020>>, <<id1B020, id2A020>> >>]

Layouts == {LayoutTwoFloor, LayoutOneFloor, LayoutLowerCaseId, LayoutSelfLoop}

\* how one slot appears in the floor's edge list
SlotModes == {"plain", "flagTrue", "oneWay", "reversed", "noDistance", "omitted"}

Shapes ==
    { <<"plain", "plain", "plain">>,
      <<"plain", "flagTrue", "omitted">>,
      <<"oneWay", "plain", "reversed">>,
      <<"noDistance", "oneWay", "plain">>,
      <<"noDistance", "plain", "omitted">>,
      <<"plain", "omitted", "omitted">> }

Distances == 0..MaxDist

RawEdge(slot, mode, d) ==
    CASE mode = "plain"      -> <<[source |-> slot[1], target |-> slot[2], distance_m |-> d]>>
      [] mode = "flagTrue"   -> <<[source |-> slot[1], target |-> slot[2], distance_m |-> d,
                                   bidirectional |-> TRUE]>>
      [] mode = "oneWay"     -> <<[source |-> slot[1], target |-> slot[2], distance_m |-> d,
                                   bidirectional |-> FALSE]>>
      [] mode = "reversed"   -> <<[source |-> slot[2], target |-> slot[1], distance_m |-> d,
                                   bidirectional |-> FALSE]>>
      [] mode = "noDistance" -> <<[source |-> slot[1], target |-> slot[2]]>>
      [] mode = "omitted"    -> <<>>

\* floor (index in FLOORS) whose file lists the node with this id
FloorOf(layout, id) ==
    layout.nodes[CHOOSE i \in 1..Len(layout.nodes) : layout.nodes[i][2].id = id][1]

RECURSIVE FloorNodes(_, _)
FloorNodes(entries, f) ==
    IF entries = <<>> THEN <<>>
    ELSE IF Head(entries)[1] = f THEN <<Head(entries)[2]>> \o FloorNodes(Tail(entries), f)
         ELSE FloorNodes(Tail(entries), f)

RECURSIVE FloorEdges(_, _, _, _, _)
FloorEdges(layout, shape, dist, f, k) ==
    IF k > Len(layout.slots) THEN <<>>
    ELSE IF FloorOf(layout, layout.slots[k][1]) = f
         THEN RawEdge(layout.slots[k], shape[k], dist[k])
              \o FloorEdges(layout, shape, dist, f, k + 1)
         ELSE FloorEdges(layout, shape, dist, f, k + 1)

MakeFloorData(layout, shape, dist) ==
    [f \in 1..Len(FLOORS) |->
        [nodes |-> FloorNodes(layout.nodes, f),
         edges |-> FloorEdges(layout, shape, dist, f, 1)]]

\* the two-floor scenario of the specification: 1A010 -5- 1K041, 2K041 -8- 2A020
ScenarioTwoFloor ==
    MakeFloorData(LayoutTwoFloor, <<"plain", "plain", "omitted">>, <<5, 8, 0>>)

FloorDataFamily ==
    { MakeFloorData(layout, shape, dist) :
        layout \in Layouts, shape \in Shapes, dist \in [1..3 -> Distances] }
    \cup {ScenarioTwoFloor}

(***************************************************************************)
(* The state machine: module load, then any sequence of exported queries.  *)
(***************************************************************************)
NoCall == [op |-> "none"]

StoredIds == {allNodes[i].id : i \in 1..Len(allNodes)}

\* identifiers callers pass: the stored spellings, the lower-case folding of
\* the first node's id, the upper-case folding of the second node's id, and an
\* identifier no node carries
QueryIds ==
    StoredIds \cup {ToLowerCase(allNodes[1].id), ToUpperCase(allNodes[2].id), idZZZ999}

QueryTypes == {<<"w","c">>, tyLab}

\* floor keys callers pass: two floors of the building and a key no floor has
QueryFloors == {"1", "2", "9"}

\* search strings: part of a type or name, part of an id, part of "Unknown"
RoomQueries == {<<"w","c">>, <<"1","b","0">>, <<"N","O","W">>}

\* no findShortestPath call is being stepped through
NoSearch == [pc |-> "idle"]

\* the client addresses the endpoint sees
IPs == {"10.0.0.7"}

\* the chat endpoint right after server start: no request has arrived
EndpointIdle ==
    /\ rateLimitStore = EmptyMap
    /\ now = 0
    /\ streaming = [ip \in IPs |-> 0]
    /\ admitted = [ip \in IPs |-> [hour |-> 0, day |-> 0]]

Init ==
    /\ floorData \in FloorDataFamily
    /\ allNodes = initializeGraph(floorData).allNodes
    /\ nodeMap = initializeGraph(floorData).nodeMap
    /\ adjacency = initializeGraph(floorData).adjacency
    /\ lastCall = NoCall
    /\ result = NullResult
    /\ search = NoSearch
    /\ EndpointIdle

\* the queries are synchronous: a caller issues one, takes its result (Return)
\* and only then is the next one issued
CallFindShortestPath ==
    /\ lastCall = NoCall
    /\ \E startId \in QueryIds, endId \in QueryIds :
        /\ lastCall' = [op |-> "findShortestPath", startId |-> startId, endId |-> endId]
        /\ result' = findShortestPath(startId, endId)
        /\ UNCHANGED <<floorData, allNodes, nodeMap, adjacency>>
    /\ UNCHANGED <<search, routeVars>>

CallFindNearestOfType ==
    /\ lastCall = NoCall
    /\ \E startId \in QueryIds, roomType \in QueryTypes :
        /\ lastCall' = [op |-> "findNearestOfType", startId |-> startId, roomType |-> roomType]
        /\ result' = findNearestOfType(startId, roomType)
        /\ UNCHANGED <<floorData, allNodes, nodeMap, adjacency>>
    /\ UNCHANGED <<search, routeVars>>

CallFindNearestOfTypeSameFloor ==
    /\ lastCall = NoCall
    /\ \E startId \in QueryIds, roomType \in QueryTypes :
        /\ lastCall' = [op |-> "findNearestOfTypeSameFloor", startId |-> startId,
                        roomType |-> roomType]
        /\ result' = findNearestOfTypeSameFloor(startId, roomType)
        /\ UNCHANGED <<floorData, allNodes, nodeMap, adjacency>>
    /\ UNCHANGED <<search, routeVars>>

CallFindRoom ==
    /\ lastCall = NoCall
    /\ \E query \in RoomQueries :
        /\ lastCall' = [op |-> "findRoom", query |-> query]
        /\ result' = findRoom(query)
        /\ UNCHANGED <<floorData, allNodes, nodeMap, adjacency>>
    /\ UNCHANGED <<search, routeVars>>

CallGetRoomsByType ==
    /\ lastCall = NoCall
    /\ \E roomType \in QueryTypes :
        /\ lastCall' = [op |-> "getRoomsByType", roomType |-> roomType]
        /\ result' = getRoomsByType(roomType)
        /\ UNCHANGED <<floorData, allNodes, nodeMap, adjacency>>
    /\ UNCHANGED <<search, routeVars>>

CallGetRoomsByTypeOnFloor ==
    /\ lastCall = NoCall
    /\ \E roomType \in QueryTypes, floor \in QueryFloors :
        /\ lastCall' = [op |-> "getRoomsByTypeOnFloor", roomType |-> roomType, floor |-> floor]
        /\ result' = getRoomsByTypeOnFloor(roomType, floor)
        /\ UNCHANGED <<floorData, allNodes, nodeMap, adjacency>>
    /\ UNCHANGED <<search, routeVars>>

CallGetAllRoomTypes ==
    /\ lastCall = NoCall
    /\ lastCall' = [op |-> "getAllRoomTypes"]
    /\ result' = getAllRoomTypes
    /\ UNCHANGED <<floorData, allNodes, nodeMap, adjacency>>
    /\ UNCHANGED <<search, routeVars>>

CallGetRoomsOnFloor ==
    /\ lastCall = NoCall
    /\ \E floor \in QueryFloors :
        /\ lastCall' = [op |-> "getRoomsOnFloor", floor |-> floor]
        /\ result' = getRoomsOnFloor(floor)
        /\ UNCHANGED <<floorData, allNodes, nodeMap, adjacency>>
    /\ UNCHANGED <<search, routeVars>>

\* variant: the projection is written back into the node list instead of
\* into a fresh array
CallGetAllRoomsInPlace ==
    /\ lastCall = NoCall
    /\ lastCall' = [op |-> "getAllRooms"]
    /\ result' = getAllRooms
    /\ allNodes' = getAllRooms
    /\ UNCHANGED <<floorData, nodeMap, adjacency>>
    /\ UNCHANGED <<search, routeVars>>

CallGetAllRooms ==
    /\ lastCall = NoCall
    /\ lastCall' = [op |-> "getAllRooms"]
    /\ result' = getAllRooms
    /\ UNCHANGED <<floorData, allNodes, nodeMap, adjacency>>
    /\ UNCHANGED <<search, routeVars>>

CallGetFloorForRoom ==
    /\ lastCall = NoCall
    /\ \E roomId \in QueryIds :
        /\ lastCall' = [op |-> "getFloorForRoom", roomId |-> roomId]
        /\ result' = getFloorForRoom(roomId)
        /\ UNCHANGED <<floorData, allNodes, nodeMap, adjacency>>
    /\ UNCHANGED <<search, routeVars>>

CallGetFloorLabel ==
    /\ lastCall = NoCall
    /\ \E floorNum \in QueryFloors :
        /\ lastCall' = [op |-> "getFloorLabel", floorNum |-> floorNum]
        /\ result' = getFloorLabel(floorNum)
        /\ UNCHANGED <<floorData, allNodes, nodeMap, adjacency>>
    /\ UNCHANGED <<search, routeVars>>

CallGetAllFloors ==
    /\ lastCall = NoCall
    /\ lastCall' = [op |-> "getAllFloors"]
    /\ result' = getAllFloors
    /\ UNCHANGED <<floorData, allNodes, nodeMap, adjacency>>
    /\ UNCHANGED <<search, routeVars>>

\* the caller formats a PathResult it got from findShortestPath
CallFormatPathForAI ==
    /\ lastCall = NoCall
    /\ \E startId \in StoredIds, endId \in StoredIds \cup {idZZZ999} :
        /\ lastCall' = [op |-> "formatPathForAI", arg |-> findShortestPath(startId, endId)]
        /\ result' = formatPathForAI(findShortestPath(startId, endId))
        /\ UNCHANGED <<floorData, allNodes, nodeMap, adjacency>>
    /\ UNCHANGED <<search, routeVars>>

CallGetBuildingSummary ==
    /\ lastCall = NoCall
    /\ lastCall' = [op |-> "getBuildingSummary"]
    /\ result' = getBuildingSummary
    /\ UNCHANGED <<floorData, allNodes, nodeMap, adjacency>>
    /\ UNCHANGED <<search, routeVars>>

Return ==
    /\ lastCall # NoCall
    /\ lastCall.op # "initializeGraph"
    /\ lastCall' = NoCall
    /\ result' = NullResult
    /\ UNCHANGED <<floorData, allNodes, nodeMap, adjacency>>
    /\ UNCHANGED <<search, routeVars>>

Next ==
    \/ Return
    \/ CallFindShortestPath
    \/ CallFindNearestOfType
    \/ CallFindNearestOfTypeSameFloor
    \/ CallFindRoom
    \/ CallGetRoomsByType
    \/ CallGetRoomsByTypeOnFloor
    \/ CallGetAllRoomTypes
    \/ CallGetRoomsOnFloor
    \/ CallGetAllRooms
    \/ CallGetFloorForRoom
    \/ CallGetFloorLabel
    \/ CallGetAllFloors
    \/ CallFormatPathForAI
    \/ CallGetBuildingSummary

Spec == Init /\ [][Next]_vars

(***************************************************************************)
(* Module load.  Evaluating the module declares the three tables empty and *)
(* then runs initializeGraph() to completion; importers can call an        *)
(* exported function only after the module has been evaluated.  The        *)
(* position inside initializeGraph is kept in lastCall, so no exported     *)
(* function is enabled while construction is on the call stack.            *)
(***************************************************************************)
Loading(phase, floor) == [op |-> "initializeGraph", phase |-> phase, floor |-> floor]

\* let allNodes = []; const nodeMap = new Map(); const adjacency = new Map()
InitLoad ==
    /\ floorData \in FloorDataFamily
    /\ allNodes = <<>>
    /\ nodeMap = EmptyMap
    /\ adjacency = EmptyMap
    /\ lastCall = Loading("nodes", 1)
    /\ result = NullResult
    /\ search = NoSearch
    /\ EndpointIdle

\* nodeMap.set(node.id, node) for the nodes of one floor, in order
RECURSIVE SetNodes(_, _)
SetNodes(nm, nodes) ==
    IF nodes = <<>> THEN nm
    ELSE SetNodes(MapSet(nm, Head(nodes).id, Head(nodes)), Tail(nodes))

\* adjacency.set(node.id, new Map()) for the nodes of one floor, in order
RECURSIVE SetEmptyNeighbours(_, _)
SetEmptyNeighbours(adj, nodes) ==
    IF nodes = <<>> THEN adj
    ELSE SetEmptyNeighbours(MapSet(adj, Head(nodes).id, EmptyMap), Tail(nodes))

\* step 1, one floor per step
LoadFloorNodes ==
    /\ lastCall.op = "initializeGraph" /\ lastCall.phase = "nodes"
    /\ LET nodes == normalizeNodes(floorData, lastCall.floor)
       IN  /\ allNodes' = allNodes \o nodes
           /\ nodeMap' = SetNodes(nodeMap, nodes)
           /\ adjacency' = SetEmptyNeighbours(adjacency, nodes)
    /\ lastCall' = IF lastCall.floor < Len(FLOORS)
                   THEN Loading("nodes", lastCall.floor + 1)
                   ELSE Loading("edges", 1)
    /\ UNCHANGED <<floorData, result>>
    /\ UNCHANGED <<search, routeVars>>

\* step 2, one floor per step
LoadFloorEdges ==
    /\ lastCall.op = "initializeGraph" /\ lastCall.phase = "edges"
    /\ adjacency' = AddIntraEdges(adjacency, normalizeEdges(floorData, lastCall.floor))
    /\ lastCall' = IF lastCall.floor < Len(FLOORS)
                   THEN Loading("edges", lastCall.floor + 1)
                   ELSE Loading("interFloor", 0)
    /\ UNCHANGED <<floorData, allNodes, nodeMap, result>>
    /\ UNCHANGED <<search, routeVars>>

\* variant: the module counts as loaded before the inter-floor edges are added
LoadInterFloorEdgesSkipped ==
    /\ lastCall.op = "initializeGraph" /\ lastCall.phase = "interFloor"
    /\ lastCall' = NoCall
    /\ UNCHANGED <<floorData, allNodes, nodeMap, adjacency, result>>
    /\ UNCHANGED <<search, routeVars>>

\* step 3, and the return of initializeGraph
LoadInterFloorEdges ==
    /\ lastCall.op = "initializeGraph" /\ lastCall.phase = "interFloor"
    /\ adjacency' = AddInterEdges(adjacency, buildInterFloorEdges(nodeMap))
    /\ lastCall' = NoCall
    /\ UNCHANGED <<floorData, allNodes, nodeMap, result>>
    /\ UNCHANGED <<search, routeVars>>

NextLoad ==
    \/ LoadFloorNodes
    \/ LoadFloorEdges
    \/ LoadInterFloorEdges
    \/ Next

SpecLoad == InitLoad /\ [][NextLoad]_vars

(***************************************************************************)
(* findShortestPath, one loop iteration per step.  The local state of the  *)
(* running call (distances, previous, unvisited, then current and path) is *)
(* kept in `search`; the call runs to completion before its caller goes on.*)
(***************************************************************************)
\* floor data for the stepped search: every layout, with one-way, reversed
\* and omitted edges, each weight 0 or MaxDist
SearchFamily ==
    { MakeFloorData(layout, shape, dist) :
        layout \in Layouts,
        shape \in { <<"oneWay", "plain", "reversed">>, <<"plain", "omitted", "omitted">> },
        dist \in [1..3 -> {0, MaxDist}] }

InitStepped ==
    /\ floorData \in SearchFamily
    /\ allNodes = initializeGraph(floorData).allNodes
    /\ nodeMap = initializeGraph(floorData).nodeMap
    /\ adjacency = initializeGraph(floorData).adjacency
    /\ lastCall = NoCall
    /\ result = NullResult
    /\ search = NoSearch
    /\ EndpointIdle

\* lines 225-253: resolve the ids, return at once if one is unknown, else set
\* up distances, previous and unvisited
SearchStart ==
    /\ lastCall = NoCall
    /\ search = NoSearch
    /\ \E startId \in QueryIds, endId \in QueryIds :
          LET normalizedStart == ResolveId(startId)
              normalizedEnd   == ResolveId(endId)
          IN  IF Falsy(normalizedStart) \/ Falsy(normalizedEnd)
              THEN /\ lastCall' = [op |-> "findShortestPath",
                                   startId |-> startId, endId |-> endId]
                   /\ result' = NotFound
                   /\ search' = search
              ELSE /\ search' = [pc |-> "loop", startId |-> startId, endId |-> endId,
                                 normalizedStart |-> normalizedStart,
                                 normalizedEnd |-> normalizedEnd,
                                 st |-> InitSearch(normalizedStart)]
                   /\ UNCHANGED <<lastCall, result>>
    /\ UNCHANGED <<floorData, allNodes, nodeMap, adjacency, routeVars>>

\* the scan of one loop iteration
Scanned == ScanMin(search.st.unvisited, search.st.distances, NullId, Infinity)

\* the loop condition fails or one of the two breaks is taken
LoopExits ==
    \/ Len(search.st.unvisited) = 0
    \/ Scanned.minNode = NullId \/ Scanned.minDistance = Infinity
    \/ Scanned.minNode = search.normalizedEnd

\* variant: the selected node stays in the unvisited set
SearchIterateKeepsNode ==
    /\ search.pc = "loop"
    /\ ~LoopExits
    /\ search' = [search EXCEPT !.st = [Relax(@, Scanned.minNode) EXCEPT
                                          !.unvisited = search.st.unvisited]]
    /\ UNCHANGED <<floorData, allNodes, nodeMap, adjacency, lastCall, result, routeVars>>

\* lines 255-285, one iteration that does not leave the loop
SearchIterate ==
    /\ search.pc = "loop"
    /\ ~LoopExits
    /\ search' = [search EXCEPT !.st = Relax(@, Scanned.minNode)]
    /\ UNCHANGED <<floorData, allNodes, nodeMap, adjacency, lastCall, result, routeVars>>

\* the loop is left; lines 288-289 set up the backward walk
SearchLeaveLoop ==
    /\ search.pc = "loop"
    /\ LoopExits
    /\ search' = [pc |-> "walk", startId |-> search.startId, endId |-> search.endId,
                  normalizedStart |-> search.normalizedStart,
                  normalizedEnd |-> search.normalizedEnd,
                  st |-> search.st,
                  current |-> search.normalizedEnd, path |-> <<>>]
    /\ UNCHANGED <<floorData, allNodes, nodeMap, adjacency, lastCall, result, routeVars>>

\* lines 290-293, one iteration of the backward walk
SearchWalkBack ==
    /\ search.pc = "walk"
    /\ search.current # NullId
    /\ search' = [search EXCEPT !.path = <<search.current>> \o @,
                                !.current = search.st.previous[search.current]]
    /\ UNCHANGED <<floorData, allNodes, nodeMap, adjacency, lastCall, result, routeVars>>

\* lines 295-354: the walk is over, the result is built and returned
SearchFinish ==
    /\ search.pc = "walk"
    /\ search.current = NullId
    /\ lastCall' = [op |-> "findShortestPath",
                    startId |-> search.startId, endId |-> search.endId]
    /\ result' = PathResultOf(search.path, search.normalizedStart,
                              search.st.distances[search.normalizedEnd])
    /\ search' = NoSearch
    /\ UNCHANGED <<floorData, allNodes, nodeMap, adjacency, routeVars>>

\* a step of the running call
SearchStep == SearchIterate \/ SearchLeaveLoop \/ SearchWalkBack \/ SearchFinish

NextStepped ==
    \/ SearchStart
    \/ SearchIterate
    \/ SearchLeaveLoop
    \/ SearchWalkBack
    \/ SearchFinish
    \/ Return

\* a started call is synchronous code: it keeps running
SpecStepped == InitStepped /\ [][NextStepped]_vars /\ WF_vars(SearchStep)

(***************************************************************************)
(* Floor data the assembler accepts although the data model asks callers   *)
(* to avoid it: edges whose endpoints no floor lists, several edges on one *)
(* pair of nodes, vertical-circulation nodes missing on a floor.           *)
(***************************************************************************)
EmptyFloor == [nodes |-> <<>>, edges |-> <<>>]

\* floor data whose floors "1", "2" and "3" are the given ones
OnFloors123(f1, f2, f3) == <<EmptyFloor, f1, f2, f3, EmptyFloor, EmptyFloor>>

\* floor 1 lists an edge to an unknown target and an edge from an unknown
\* source before a valid edge; floor 2 lists an edge between two unknown ids
DataDanglingEdges(mode, d) ==
    OnFloors123(
        [nodes |-> <<RawNode(id1A010, tyOffice), RawNode(id1B020, tyWC)>>,
         edges |-> RawEdge(<<id1A010, idZZZ999>>, mode, d)
                   \o RawEdge(<<idZZZ999, id1B020>>, mode, d)
                   \o RawEdge(<<id1A010, id1B020>>, "plain", d)],
        [nodes |-> <<RawNode(id2A020, tyLab)>>,
         edges |-> RawEdge(<<idZZZ999, id2B020>>, mode, d)
                   \o RawEdge(<<id2A020, id1A010>>, mode, d)],
        EmptyFloor)

\* two edges on the same pair of nodes, the second in the given mode
DataTwoEdgesOnePair(mode, d1, d2) ==
    OnFloors123(
        [nodes |-> <<RawNode(id1A010, tyOffice), RawNode(id1B020, tyWC)>>,
         edges |-> RawEdge(<<id1A010, id1B020>>, "plain", d1)
                   \o RawEdge(<<id1A010, id1B020>>, mode, d2)],
        EmptyFloor, EmptyFloor)

id3K041 == <<"3","K","0","4","1">>
id3K042 == <<"3","K","0","4","2">>
id2K271 == <<"2","K","2","7","1">>
id3K271 == <<"3","K","2","7","1">>

\* three floors with stairwell K041 and lift lobbies K042, K271; `missing`
\* are the vertical-circulation nodes a floor does not list.  Floor 2 lists
\* a one-way raw edge down the stairwell.
DataVerticalGaps(missing, d) ==
    LET Listed(nodes) == SelectSeq(nodes, LAMBDA n : n.id \notin missing)
    IN  OnFloors123(
            [nodes |-> Listed(<<RawNode(id1A010, tyOffice), RawNode(id1K041, tyStairs),
                                RawNode(id1K042, tyLift)>>),
             edges |-> RawEdge(<<id1A010, id1K041>>, "plain", d)],
            [nodes |-> Listed(<<RawNode(id2A020, tyWC), RawNode(id2K041, tyStairs),
                                RawNode(id2K042, tyLift), RawNode(id2K271, tyLift)>>),
             edges |-> RawEdge(<<id2K041, id1K041>>, "oneWay", d)],
            [nodes |-> Listed(<<RawNode(id3K041, tyStairs), RawNode(id3K042, tyLift),
                                RawNode(id3K271, tyLift)>>),
             edges |-> <<>>])

\* an id listed twice on floor 1 (first as an office, later as a lab) and an
\* id of floor 1 listed again on floor 2
DataDuplicateIds(mode, d) ==
    OnFloors123(
        [nodes |-> <<RawNode(id1A010, tyOffice), RawNode(id1B020, tyWC),
                     RawNode(id1A010, tyLab)>>,
         edges |-> RawEdge(<<id1A010, id1B020>>, mode, d)],
        [nodes |-> <<RawNode(id1B020, tyLift), RawNode(id2A020, tyWC)>>,
         edges |-> RawEdge(<<id1B020, id2A020>>, "plain", d)],
        EmptyFloor)

nmBar == <<"B","a","r">>

\* raw labels: two lines, dash-delimited, one padded segment, a trailing and a
\* leading newline
rawTwoLines        == <<"1","A","\n","F","o","o">>
rawDashed          == <<"F","o"," ","-"," ","B","a">>
rawPadded          == <<" ","F","o"," ">>
rawTrailingNewline == <<"F","o","\n">>
rawLeadingNewline  == <<"\n","F","o">>

\* generic labels: a token followed by text, and a single token
labelTokenText == <<"1","A"," ","L","a","b"," ">>
labelOneToken  == <<"L","o","b","b","y">>

\* nodes that supply or omit name, label_raw, label, room_type and area_m2
DataLabels(d) ==
    OnFloors123(
        [nodes |-> << [id |-> id1A010, name |-> nmBar, label_raw |-> rawTwoLines,
                       label |-> labelTokenText, room_type |-> tyOffice, area_m2 |-> 0],
                      [id |-> id1B020, label_raw |-> rawTwoLines, room_type |-> <<>>],
                      [id |-> id1C030, label_raw |-> rawDashed, label |-> labelTokenText,
                       area_m2 |-> 12],
                      [id |-> id1K041, label_raw |-> rawTrailingNewline,
                       label |-> labelTokenText, room_type |-> tyStairs],
                      [id |-> id1K042, label_raw |-> rawTrailingNewline,
                       room_type |-> tyLift] >>,
         edges |-> RawEdge(<<id1A010, id1B020>>, "plain", d)
                   \o RawEdge(<<id1B020, id1C030>>, "noDistance", d)
                   \o RawEdge(<<id1C030, id1K041>>, "oneWay", d)
                   \o RawEdge(<<id1K041, id1K042>>, "flagTrue", d)],
        [nodes |-> << [id |-> id2A020, label_raw |-> rawPadded, room_type |-> tyWC],
                      [id |-> id2B020, label_raw |-> rawLeadingNewline, room_type |-> tyWC],
                      [id |-> id2K041, label |-> labelOneToken, room_type |-> tyStairs],
                      [id |-> id2K042, label |-> labelTokenText, room_type |-> tyLift],
                      [id |-> id2a010, name |-> <<>>, label |-> labelOneToken],
                      [id |-> id2K271] >>,
         edges |-> RawEdge(<<id2A020, id2B020>>, "reversed", d)
                   \o RawEdge(<<id2B020, id2K041>>, "plain", d)],
        EmptyFloor)

VerticalNodes == {id1K041, id2K041, id3K041, id1K042, id2K042, id3K042, id2K271, id3K271}

\* which vertical-circulation nodes the floors leave out
MissingSets ==
    { {}, {id2K041}, {id1K041}, {id3K041, id2K042}, {id2K041, id3K271},
      {id1K042, id3K042}, VerticalNodes }

AssemblyFamily ==
    { DataDanglingEdges(mode, d) : mode \in SlotModes \ {"omitted"}, d \in Distances }
    \cup { DataVerticalGaps(missing, d) : missing \in MissingSets, d \in Distances }
    \cup { DataDuplicateIds(mode, d) : mode \in {"plain", "oneWay"}, d \in Distances }
    \cup { DataLabels(d) : d \in Distances }
    \cup { DataTwoEdgesOnePair(mode, d1, d2) :
               mode \in SlotModes, d1 \in Distances, d2 \in Distances }

InitAssembly ==
    /\ floorData \in AssemblyFamily
    /\ allNodes = <<>>
    /\ nodeMap = EmptyMap
    /\ adjacency = EmptyMap
    /\ lastCall = Loading("nodes", 1)
    /\ result = NullResult
    /\ search = NoSearch
    /\ EndpointIdle

SpecAssembly == InitAssembly /\ [][NextLoad]_vars

(***************************************************************************)
(* The chat endpoint (src/app/api/chat/route.ts): POST checks the client's *)
(* rate limit when a request arrives and counts the request when its       *)
(* response has finished streaming.  streaming[ip] counts the admitted     *)
(* requests of ip whose response has not finished; admitted[ip] counts the *)
(* requests admitted since the client's hourly and daily window began.     *)
(* The requests followed are those whose response streams to its end.      *)
(***************************************************************************)
\* export const maxDuration, in seconds: no response streams for longer
maxDuration == 30

MAX_MESSAGES_PER_DAY == 50

MAX_MESSAGES_PER_HOUR == 20

dayInMs == 24 * 60 * 60 * 1000

hourInMs == 60 * 60 * 1000

\* Math.min
MathMin(a, b) == IF a <= b THEN a ELSE b

\* Math.ceil(ms / 1000 / 60) for ms >= 0
CeilMinutes(ms) == (ms + (1000 * 60) - 1) \div (1000 * 60)

\* the record getRateLimitInfo works on: a fresh one when the client has
\* none or its day has passed, with the hourly count reset when its hour
\* has passed
RecordAt(store, ip, t) ==
    LET fresh  == [count |-> 0, hourCount |-> 0,
                   resetTime |-> t + dayInMs, hourResetTime |-> t + hourInMs]
        record == IF ip \notin DOMAIN store THEN fresh
                  ELSE IF t > store[ip].resetTime THEN fresh
                  ELSE store[ip]
    IN  IF t > record.hourResetTime
        THEN [record EXCEPT !.hourCount = 0, !.hourResetTime = t + hourInMs]
        ELSE record

\* getRateLimitInfo(ip) at time t: the answer and the store it leaves
getRateLimitInfo(store, ip, t) ==
    LET record    == RecordAt(store, ip, t)
        remaining == MathMin(MAX_MESSAGES_PER_DAY - record.count,
                             MAX_MESSAGES_PER_HOUR - record.hourCount)
        answer    == IF record.count >= MAX_MESSAGES_PER_DAY
                     THEN [allowed |-> FALSE, remaining |-> 0,
                           resetIn |-> CeilMinutes(record.resetTime - t)]
                     ELSE IF record.hourCount >= MAX_MESSAGES_PER_HOUR
                     THEN [allowed |-> FALSE, remaining |-> 0,
                           resetIn |-> CeilMinutes(record.hourResetTime - t)]
                     ELSE [allowed |-> TRUE, remaining |-> remaining - 1, resetIn |-> 0]
    IN  [info |-> answer, store |-> MapSet(store, ip, record)]

incrementRateLimit(store, ip) ==
    IF ip \in DOMAIN store
    THEN [store EXCEPT ![ip].count = @ + 1, ![ip].hourCount = @ + 1]
    ELSE store

\* the times Date.now() is observed at: server start, and the instants
\* right after the first hour and the first day
ClockTimes == {0, hourInMs + 1, dayInMs + 1}

\* the windows a request at time t finds opened anew
DayRestarts(store, ip, t) == ip \notin DOMAIN store \/ t > store[ip].resetTime

HourRestarts(store, ip, t) ==
    DayRestarts(store, ip, t) \/ t > store[ip].hourResetTime

pathVars == <<floorData, allNodes, nodeMap, adjacency, lastCall, result, search>>

\* POST up to the rate limit check: the request is answered 429 or admitted
PostArrives(ip) ==
    LET checked == getRateLimitInfo(rateLimitStore, ip, now)
        hour    == IF HourRestarts(rateLimitStore, ip, now) THEN 0 ELSE admitted[ip].hour
        day     == IF DayRestarts(rateLimitStore, ip, now) THEN 0 ELSE admitted[ip].day
    IN  /\ streaming[ip] < MaxInFlight
        /\ rateLimitStore' = checked.store
        /\ IF checked.info.allowed
           THEN /\ streaming' = [streaming EXCEPT ![ip] = @ + 1]
                /\ admitted' = [admitted EXCEPT ![ip] =
                                   [hour |-> hour + 1, day |-> day + 1]]
           ELSE /\ streaming' = streaming
                /\ admitted' = [admitted EXCEPT ![ip] = [hour |-> hour, day |-> day]]
        /\ UNCHANGED <<now, pathVars>>

\* onFinish of streamText: the response has been streamed
StreamFinishes(ip) ==
    /\ streaming[ip] > 0
    /\ streaming' = [streaming EXCEPT ![ip] = @ - 1]
    /\ rateLimitStore' = incrementRateLimit(rateLimitStore, ip)
    /\ UNCHANGED <<now, admitted, pathVars>>

\* time passes between two events of the server; a response that streams
\* does not outlast maxDuration
ClockAdvances ==
    /\ \E t \in ClockTimes :
          /\ t > now
          /\ (t - now > maxDuration * 1000) => \A ip \in IPs : streaming[ip] = 0
          /\ now' = t
    /\ UNCHANGED <<rateLimitStore, streaming, admitted, pathVars>>

InitEndpoint ==
    /\ floorData = DataLabels(0)
    /\ allNodes = initializeGraph(floorData).allNodes
    /\ nodeMap = initializeGraph(floorData).nodeMap
    /\ adjacency = initializeGraph(floorData).adjacency
    /\ lastCall = NoCall
    /\ result = NullResult
    /\ search = NoSearch
    /\ EndpointIdle

NextEndpoint ==
    \/ \E ip \in IPs : PostArrives(ip)
    \/ \E ip \in IPs : StreamFinishes(ip)
    \/ ClockAdvances

SpecEndpoint == InitEndpoint /\ [][NextEndpoint]_vars

(***************************************************************************)
(* Reference notions the properties are stated with.  They are defined on  *)
(* the adjacency mapping alone and share nothing with the search above.    *)
(***************************************************************************)
\* least of a non-empty set of numbers extended with Infinity
Least(S) == CHOOSE x \in S : \A y \in S : x = y \/ LessThan(x, y) \/ y = Infinity

\* one round of extending every walk from the source by one edge
ExtendWalks(d) ==
    [n \in DOMAIN d |->
        Least({d[n]} \cup {Plus(d[m], adjacency[m][n]) :
                              m \in {k \in DOMAIN adjacency : n \in DOMAIN adjacency[k]}})]

RECURSIVE WalkRounds(_, _)
WalkRounds(d, k) == IF k = 0 THEN d ELSE WalkRounds(ExtendWalks(d), k - 1)

\* MinWalk(s)[t]: the least total weight of a directed walk from s to t in the
\* adjacency mapping, Infinity when there is none (weights are non-negative,
\* so walks of at most |nodes| - 1 edges suffice)
MinWalk(s) ==
    WalkRounds([n \in DOMAIN adjacency |-> IF n = s THEN 0 ELSE Infinity],
               Cardinality(DOMAIN adjacency))

Reachable(s, t) == MinWalk(s)[t] # Infinity

\* the stored ids a caller's spelling matches case-insensitively
Matches(id) == {n \in StoredIds : ToLowerCase(n) = ToLowerCase(id)}

IsPathCall == lastCall.op = "findShortestPath"

NonNegativeWeights ==
    \A m \in DOMAIN adjacency : \A n \in DOMAIN adjacency[m] : adjacency[m][n] >= 0

(***************************************************************************)
(* C1.  On a graph with non-negative edge weights, for ids resolving to    *)
(* nodes s and t with t reachable from s, findShortestPath returns         *)
(* found = true and totalDistance = the least weight of a directed walk    *)
(* from s to t.                                                            *)
(***************************************************************************)
C1_ShortestDistance ==
    (IsPathCall /\ NonNegativeWeights) =>
        \A s \in Matches(lastCall.startId), t \in Matches(lastCall.endId) :
            Reachable(s, t) =>
                /\ result.found
                /\ result.totalDistance = MinWalk(s)[t]

\* a call whose shortest walk has more edges than some other, heavier walk
C1_Witness ==
    /\ IsPathCall
    /\ result.found
    /\ Len(result.path) >= 3
    /\ result.path[Len(result.path)] \in DOMAIN adjacency[result.path[1]]
    /\ result.totalDistance < adjacency[result.path[1]][result.path[Len(result.path)]]

(***************************************************************************)
(* C2.  findShortestPath returns the not-found result when startId or      *)
(* endId matches no node id case-insensitively, and when both resolve but  *)
(* the end node is not reachable from the start node.                      *)
(***************************************************************************)
C2_NotFound ==
    IsPathCall =>
        /\ (Matches(lastCall.startId) = {} \/ Matches(lastCall.endId) = {})
              => result = NotFound
        /\ \A s \in Matches(lastCall.startId), t \in Matches(lastCall.endId) :
              ~Reachable(s, t) => result = NotFound

\* both ids resolve, the end node has incoming edges, yet it is out of reach
C2_Witness ==
    /\ IsPathCall
    /\ \E s \in Matches(lastCall.startId), t \in Matches(lastCall.endId) :
          /\ ~Reachable(s, t)
          /\ \E m \in DOMAIN adjacency : t \in DOMAIN adjacency[m]
    /\ result = NotFound

\* an id no node carries
C2_WitnessUnresolved ==
    /\ IsPathCall
    /\ Matches(lastCall.startId) # {}
    /\ Matches(lastCall.endId) = {}
    /\ result = NotFound

(***************************************************************************)
(* C3.  For every node id n of the graph, findShortestPath(n, n) returns   *)
(* found = true, path = [n], totalDistance = 0 and steps = [], whatever    *)
(* edges leave n.                                                          *)
(***************************************************************************)
C3_SameNode ==
    (IsPathCall /\ lastCall.startId \in StoredIds /\ lastCall.endId = lastCall.startId) =>
        /\ result.found
        /\ result.path = <<lastCall.startId>>
        /\ result.totalDistance = 0
        /\ result.steps = <<>>

\* n has an edge to itself and an edge to another node
C3_Witness ==
    /\ IsPathCall
    /\ lastCall.startId \in StoredIds
    /\ lastCall.endId = lastCall.startId
    /\ lastCall.startId \in DOMAIN adjacency[lastCall.startId]
    /\ \E n \in DOMAIN adjacency[lastCall.startId] : n # lastCall.startId
    /\ result.found

(***************************************************************************)
(* C4.  On the two-floor graph 1A010 -5- 1K041, 2K041 -8- 2A020 with the   *)
(* synthesized stairwell edge 1K041 <-> 2K041 of distance 15,              *)
(* findShortestPath("1A010", "2A020") yields totalDistance 28, the path    *)
(* 1A010, 1K041, 2K041, 2A020, crossesFloors = true and exactly one step   *)
(* with isFloorChange = true.                                              *)
(***************************************************************************)
FloorChangeSteps(r) == {i \in 1..Len(r.steps) : r.steps[i].isFloorChange}

IsScenarioCall ==
    /\ floorData = ScenarioTwoFloor
    /\ IsPathCall
    /\ lastCall.startId = id1A010
    /\ lastCall.endId = id2A020

C4_TwoFloorScenario ==
    IsScenarioCall =>
        /\ result.found
        /\ result.totalDistance = 28
        /\ result.path = <<id1A010, id1K041, id2K041, id2A020>>
        /\ result.crossesFloors
        /\ Cardinality(FloorChangeSteps(result)) = 1

C4_Witness ==
    /\ IsScenarioCall
    /\ adjacency[id1K041][id2K041] = 15
    /\ adjacency[id2K041][id1K041] = 15
    /\ result.found

(***************************************************************************)
(* C5.  Identifier resolution is case-insensitive: a call with any case    *)
(* variant of a stored id returns the PathResult of the call with the      *)
(* stored spelling, and path, pathDetails and steps carry stored ids only. *)
(***************************************************************************)
ResultIds(r) ==
    Range(r.path) \cup {r.pathDetails[i].id : i \in 1..Len(r.pathDetails)}
                  \cup {r.steps[i].from : i \in 1..Len(r.steps)}
                  \cup {r.steps[i].to : i \in 1..Len(r.steps)}

C5_CaseInsensitive ==
    IsPathCall =>
        /\ \A s \in Matches(lastCall.startId), t \in Matches(lastCall.endId) :
              result = findShortestPath(s, t)
        /\ ResultIds(result) \subseteq StoredIds

\* both ids are spelled differently from every stored id, and a path is found
C5_Witness ==
    /\ IsPathCall
    /\ lastCall.startId \notin StoredIds
    /\ lastCall.endId \notin StoredIds
    /\ result.found
    /\ Len(result.path) >= 2
    /\ lastCall.startId \notin ResultIds(result)

(***************************************************************************)
(* C6.  In a graph where every edge is bidirectional, for every pair of    *)
(* mutually reachable nodes (a, b) the totalDistance of                    *)
(* findShortestPath(a, b) equals that of findShortestPath(b, a).           *)
(***************************************************************************)
AllBidirectional ==
    \A f \in 1..Len(FLOORS) : \A i \in 1..Len(floorData[f].edges) :
        NormalizeEdge(floorData[f].edges[i]).bidirectional

C6_Symmetry ==
    (IsPathCall /\ AllBidirectional) =>
        \A a \in Matches(lastCall.startId), b \in Matches(lastCall.endId) :
            (Reachable(a, b) /\ Reachable(b, a)) =>
                result.totalDistance = findShortestPath(b, a).totalDistance

\* a found path of two or more hops of unequal weight in an all-bidirectional graph
C6_Witness ==
    /\ IsPathCall
    /\ AllBidirectional
    /\ result.found
    /\ Len(result.steps) >= 2
    /\ result.steps[1].distance # result.steps[Len(result.steps)].distance
    /\ findShortestPath(lastCall.endId, lastCall.startId).found

(***************************************************************************)
(* C7.  Triangle inequality: for mutually reachable nodes a, b, c the      *)
(* totalDistance of findShortestPath(a, c) is at most the sum of those of  *)
(* findShortestPath(a, b) and findShortestPath(b, c).                      *)
(***************************************************************************)
MutuallyReachable(S) == \A m \in S, n \in S : Reachable(m, n)

C7_Triangle ==
    IsPathCall =>
        \A a \in Matches(lastCall.startId), c \in Matches(lastCall.endId), b \in StoredIds :
            MutuallyReachable({a, b, c}) =>
                result.totalDistance <= findShortestPath(a, b).totalDistance
                                        + findShortestPath(b, c).totalDistance

\* three distinct mutually reachable nodes where the detour over b is strictly longer
C7_Witness ==
    /\ IsPathCall
    /\ result.found
    /\ \E a \in Matches(lastCall.startId), c \in Matches(lastCall.endId), b \in StoredIds :
          /\ Cardinality({a, b, c}) = 3
          /\ MutuallyReachable({a, b, c})
          /\ result.totalDistance < findShortestPath(a, b).totalDistance
                                     + findShortestPath(b, c).totalDistance

(***************************************************************************)
(* C8.  For two nodes on different floors that are connected only through  *)
(* one synthesized stairwell edge pair, the PathResult has                 *)
(* crossesFloors = true and exactly one step with isFloorChange = true.    *)
(***************************************************************************)
\* the adjacency entries whose endpoints lie on different floors
InterFloorLinks ==
    {link \in (DOMAIN adjacency) \X (DOMAIN adjacency) :
        /\ link[2] \in DOMAIN adjacency[link[1]]
        /\ nodeMap[link[1]].floor # nodeMap[link[2]].floor}

\* m and n are the lower and upper node of a stairwell suffix on neighbouring floors
IsStairwellPair(m, n) ==
    \E i \in 1..(Len(FLOORS) - 1), k \in 1..Len(STAIRWELL_SUFFIXES) :
        /\ m = FLOORS[i].prefix \o STAIRWELL_SUFFIXES[k]
        /\ n = FLOORS[i + 1].prefix \o STAIRWELL_SUFFIXES[k]

OnlyOneStairwellPair ==
    \E m \in DOMAIN adjacency, n \in DOMAIN adjacency :
        /\ IsStairwellPair(m, n)
        /\ InterFloorLinks = {<<m, n>>, <<n, m>>}

C8_OneFloorChange ==
    (IsPathCall /\ OnlyOneStairwellPair) =>
        \A s \in Matches(lastCall.startId), t \in Matches(lastCall.endId) :
            (nodeMap[s].floor # nodeMap[t].floor /\ Reachable(s, t)) =>
                /\ result.found
                /\ result.crossesFloors
                /\ Cardinality(FloorChangeSteps(result)) = 1

\* a downward trip of three hops across the only stairwell pair
C8_Witness ==
    /\ IsPathCall
    /\ OnlyOneStairwellPair
    /\ result.found
    /\ Len(result.steps) = 3
    /\ result.pathDetails[1].floor = "2"
    /\ result.pathDetails[Len(result.path)].floor = "1"
    /\ result.crossesFloors

(***************************************************************************)
(* C9.  findNearestOfType(startId, type) returns, among the nodes whose    *)
(* roomType contains type case-insensitively and that are reachable from   *)
(* the start, a found PathResult of least totalDistance; it returns the    *)
(* absent result exactly when no node matches or no matching node is       *)
(* reachable, which includes a startId that resolves to no node.           *)
(***************************************************************************)
TypeMatches(type) ==
    {allNodes[i].id : i \in {k \in 1..Len(allNodes) :
        Includes(ToLowerCase(allNodes[k].roomType), ToLowerCase(type))}}

\* the matching nodes some walk leads to from the node the start id resolves to
ReachableMatches(startId, type) ==
    {c \in TypeMatches(type) : \E s \in Matches(startId) : Reachable(s, c)}

C9_Nearest ==
    lastCall.op = "findNearestOfType" =>
        LET cands == ReachableMatches(lastCall.startId, lastCall.roomType)
        IN  IF cands = {} THEN IsNull(result)
            ELSE /\ ~IsNull(result)
                 /\ result.found
                 /\ result.path[Len(result.path)] \in cands
                 /\ \A s \in Matches(lastCall.startId), c \in cands :
                       result.totalDistance <= MinWalk(s)[c]

\* two reachable candidates at different distances, the farther one listed first
C9_Witness ==
    /\ lastCall.op = "findNearestOfType"
    /\ ~IsNull(result)
    /\ \E i \in 1..Len(allNodes) :
          /\ allNodes[i].id \in ReachableMatches(lastCall.startId, lastCall.roomType)
          /\ \A j \in 1..Len(allNodes) :
                allNodes[j].id = result.path[Len(result.path)] => i < j
          /\ \E s \in Matches(lastCall.startId) :
                result.totalDistance < MinWalk(s)[allNodes[i].id]

\* the absent result for a start id no node carries although rooms match
C9_WitnessAbsent ==
    /\ lastCall.op = "findNearestOfType"
    /\ Matches(lastCall.startId) = {}
    /\ TypeMatches(lastCall.roomType) # {}
    /\ IsNull(result)

(***************************************************************************)
(* C10.  For every start id that resolves to a node and every type,        *)
(* findNearestOfTypeSameFloor never returns a PathResult whose destination *)
(* lies on another floor than the start node when a node of the start's    *)
(* floor whose roomType matches is reachable from the start.               *)
(***************************************************************************)
SameFloorMatchReachable(s, type) ==
    \E c \in TypeMatches(type) : nodeMap[c].floor = nodeMap[s].floor /\ Reachable(s, c)

IsCrossFloor(r, s) ==
    /\ ~IsNull(r)
    /\ r.found
    /\ nodeMap[r.path[Len(r.path)]].floor # nodeMap[s].floor

C10_NeverCrossFloor ==
    lastCall.op = "findNearestOfTypeSameFloor" =>
        \A s \in Matches(lastCall.startId) :
            SameFloorMatchReachable(s, lastCall.roomType) => ~IsCrossFloor(result, s)

(***************************************************************************)
(* C11.  findNearestOfTypeSameFloor returns the least-totalDistance path   *)
(* among the reachable matching candidates on the start node's own floor   *)
(* when there is one; when no matching same-floor candidate is reachable   *)
(* it returns exactly what findNearestOfType returns, the absent result    *)
(* included.                                                               *)
(***************************************************************************)
\* the matching nodes of the start node's floor that a walk from it leads to
SameFloorMatches(startId, type) ==
    {c \in TypeMatches(type) :
        \E s \in Matches(startId) : nodeMap[c].floor = nodeMap[s].floor /\ Reachable(s, c)}

C11_SameFloorFirst ==
    lastCall.op = "findNearestOfTypeSameFloor" =>
        LET cands == SameFloorMatches(lastCall.startId, lastCall.roomType)
        IN  IF cands = {}
            THEN result = findNearestOfType(lastCall.startId, lastCall.roomType)
            ELSE /\ ~IsNull(result)
                 /\ result.found
                 /\ result.path[Len(result.path)] \in cands
                 /\ \A s \in Matches(lastCall.startId), c \in cands :
                       result.totalDistance <= MinWalk(s)[c]

(***************************************************************************)
(* C12.  For every query string q, findRoom(q) returns a projection of     *)
(* exactly the nodes whose id, name or roomType contains q                 *)
(* case-insensitively as a substring, each such node once, in node-table   *)
(* order, and no other node.                                               *)
(***************************************************************************)
\* q occurs in s when the case of letters is disregarded
ContainsIgnoringCase(s, q) ==
    \E pre \in 0..Len(s) :
        /\ pre + Len(q) <= Len(s)
        /\ \A k \in 1..Len(q) : LowerChar(s[pre + k]) = LowerChar(q[k])

\* positions in the node table of the nodes the query selects
RoomHits(q) ==
    {i \in 1..Len(allNodes) :
        \/ ContainsIgnoringCase(allNodes[i].id, q)
        \/ ContainsIgnoringCase(allNodes[i].name, q)
        \/ ContainsIgnoringCase(allNodes[i].roomType, q)}

\* the k-th smallest element of a set of positions
KthOf(S, k) == CHOOSE i \in S : Cardinality({j \in S : j <= i}) = k

C12_FindRoom ==
    lastCall.op = "findRoom" =>
        LET hits == RoomHits(lastCall.query)
        IN  /\ Len(result) = Cardinality(hits)
            /\ \A k \in 1..Len(result) :
                  LET n == allNodes[KthOf(hits, k)]
                  IN  result[k] = [id |-> n.id, roomType |-> n.roomType, area |-> n.area,
                                   floor |-> n.floor, floorLabel |-> n.floorLabel]

\* a node found by its name alone, after one found by its type, with a miss between
C12_Witness ==
    /\ lastCall.op = "findRoom"
    /\ Len(result) >= 2
    /\ Len(result) < Len(allNodes)
    /\ \E i \in RoomHits(lastCall.query) :
          /\ ContainsIgnoringCase(allNodes[i].name, lastCall.query)
          /\ ~ContainsIgnoringCase(allNodes[i].id, lastCall.query)
          /\ ~ContainsIgnoringCase(allNodes[i].roomType, lastCall.query)


\* the three tables as the module holds them
Tables == [allNodes |-> allNodes, nodeMap |-> nodeMap, adjacency |-> adjacency]

\* C13: no exported operation, called in any sequence with any arguments,
\* changes the node list, the node table or the adjacency mapping: every step
\* leaves the three tables as they were.
C13_GraphImmutable ==
    [][/\ allNodes' = allNodes
       /\ nodeMap' = nodeMap
       /\ adjacency' = adjacency]_vars

\* getAllRoomTypes has returned a sorted list whose order differs from the
\* order of the node list, and the tables are still the ones construction made
C13_Witness ==
    /\ lastCall.op = "getAllRoomTypes"
    /\ Len(result) > 1
    /\ \E i \in 1..Len(result) : result[i] # allNodes[i].roomType
    /\ Tables = initializeGraph(floorData)


QueryOps ==
    {"findShortestPath", "findRoom", "getRoomsByType", "getRoomsByTypeOnFloor",
     "getAllRoomTypes", "getRoomsOnFloor", "getAllRooms", "findNearestOfType",
     "findNearestOfTypeSameFloor", "getFloorForRoom", "getFloorLabel",
     "getAllFloors", "formatPathForAI", "getBuildingSummary"}

\* C15: the graph is built once, at module load, and a query never sees it
\* partially built: whenever an exported operation starts, the three tables
\* are already the complete result of initializeGraph on the floor data, and
\* once construction has returned the tables never change and construction
\* never runs again.
C15_BuiltOnceBeforeQueries ==
    [][/\ (lastCall'.op \in QueryOps /\ lastCall' # lastCall)
            => Tables = initializeGraph(floorData)
       /\ lastCall.op # "initializeGraph"
            => (Tables' = Tables /\ lastCall'.op # "initializeGraph")]_vars

\* after a module load, a route over an inter-floor edge (added by the last
\* construction step) has been answered
C15_Witness ==
    /\ lastCall.op = "findShortestPath"
    /\ result.found
    /\ result.crossesFloors
    /\ Tables = initializeGraph(floorData)


\* the lines of a text that are of one of the given kinds, in text order
LinesOfKind(text, kinds) == SelectSeq(text, LAMBDA line : line.kind \in kinds)

\* the label the building's floor list gives a floor key
LabelOfFloor(floorNum) ==
    LET i == CHOOSE j \in 1..Len(FLOORS) : FLOORS[j].floorNum = floorNum
    IN  FLOORS[i].label

\* the numbered lines of a text are exactly the steps, in order, a floor
\* change rendered as such and a same-floor hop as a hop with its distance
StepLinesMatch(text, steps) ==
    LET numbered == LinesOfKind(text, {"HOP", "FLOOR_CHANGE"})
    IN  /\ Len(numbered) = Len(steps)
        /\ \A k \in 1..Len(steps) :
              /\ numbered[k].number = k
              /\ numbered[k].from = steps[k].from
              /\ numbered[k].to = steps[k].to
              /\ (numbered[k].kind = "FLOOR_CHANGE") = steps[k].isFloorChange
              /\ numbered[k].kind = "HOP" => numbered[k].distance = steps[k].distance

\* the room lines of a text are exactly the entries of pathDetails, in order
RoomLinesMatch(text, pathDetails) ==
    LET rooms == LinesOfKind(text, {"ROOM"})
    IN  /\ Len(rooms) = Len(pathDetails)
        /\ \A k \in 1..Len(pathDetails) :
              /\ rooms[k].id = pathDetails[k].id
              /\ rooms[k].roomType = pathDetails[k].roomType
              /\ rooms[k].floorLabel = pathDetails[k].floorLabel

\* summary lines come first, then the numbered lines, then the room lines
BlocksInOrder(text) ==
    \A i, j \in 1..Len(text) :
        /\ (text[i].kind \in {"PATH_FOUND", "TOTAL_DISTANCE", "NUMBER_OF_STEPS",
                              "CROSSES_FLOORS", "FLOORS_TRAVERSED"}
             /\ text[j].kind \in {"HOP", "FLOOR_CHANGE", "ROOM"}) => i < j
        /\ (text[i].kind \in {"HOP", "FLOOR_CHANGE"} /\ text[j].kind = "ROOM") => i < j

\* C16: formatPathForAI returns the one sentinel line exactly when the result
\* is not found; for a found result the text is, in order, the summary block
\* (total distance, number of steps, crosses-floors flag and, only when floors
\* are crossed, the labels of floorsTraversed), one numbered line per step in
\* step order with floor changes told apart from hops, and one line per entry
\* of pathDetails.
C16_FormatPath ==
    lastCall.op = "formatPathForAI" =>
        LET r    == lastCall.arg
            text == result
        IN  /\ (text = <<[kind |-> "PATH_NOT_FOUND"]>>) = ~r.found
            /\ r.found =>
                 /\ text[1].kind = "PATH_FOUND"
                 /\ text[2] = [kind |-> "TOTAL_DISTANCE", meters |-> r.totalDistance]
                 /\ text[3] = [kind |-> "NUMBER_OF_STEPS", count |-> Len(r.steps)]
                 /\ text[4].kind = "CROSSES_FLOORS"
                 /\ (text[4].text = "YES") = r.crossesFloors
                 /\ IF r.crossesFloors
                    THEN text[5] = [kind |-> "FLOORS_TRAVERSED",
                                    labels |-> [k \in 1..Len(r.floorsTraversed) |->
                                                   LabelOfFloor(r.floorsTraversed[k])]]
                    ELSE LinesOfKind(text, {"FLOORS_TRAVERSED"}) = <<>>
                 /\ StepLinesMatch(text, r.steps)
                 /\ RoomLinesMatch(text, r.pathDetails)
                 /\ BlocksInOrder(text)

\* a found route with a floor change and a same-floor hop has been formatted
C16_Witness ==
    /\ lastCall.op = "formatPathForAI"
    /\ lastCall.arg.found
    /\ \E k \in 1..Len(lastCall.arg.steps) : lastCall.arg.steps[k].isFloorChange
    /\ \E k \in 1..Len(lastCall.arg.steps) : ~lastCall.arg.steps[k].isFloorChange
    /\ Len(result) > 1


\* a findShortestPath call has returned a found PathResult
IsFoundPath == IsPathCall /\ result.found

RECURSIVE SumDistances(_)
SumDistances(steps) ==
    IF steps = <<>> THEN 0 ELSE Head(steps).distance + SumDistances(Tail(steps))

\* C17: in every found PathResult, totalDistance equals the sum of the
\* distance fields of its steps.
C17_TotalIsSumOfSteps ==
    IsFoundPath => result.totalDistance = SumDistances(result.steps)

\* a found route of at least two steps with a positive total
C17_Witness ==
    /\ IsFoundPath
    /\ Len(result.steps) >= 2
    /\ result.totalDistance > 0

\* the record the node list holds for an id
StoredNode(id) == allNodes[CHOOSE i \in 1..Len(allNodes) : allNodes[i].id = id]

\* C18: in every found PathResult, path runs from the resolved start id to the
\* resolved end id without visiting a node twice; pathDetails has one entry
\* per path node, in path order; steps has Len(path) - 1 entries, the i-th
\* from path[i] to path[i + 1]; and each hop is a directed adjacency entry
\* whose weight is the step's distance.
C18_PathShape ==
    IsFoundPath =>
        LET path == result.path
        IN  /\ Len(path) >= 1
            /\ path[1] \in Matches(lastCall.startId)
            /\ path[Len(path)] \in Matches(lastCall.endId)
            /\ \A i, j \in 1..Len(path) : path[i] = path[j] => i = j
            /\ Len(result.pathDetails) = Len(path)
            /\ \A i \in 1..Len(path) :
                  /\ result.pathDetails[i].id = path[i]
                  /\ result.pathDetails[i].roomType = StoredNode(path[i]).roomType
                  /\ result.pathDetails[i].floor = StoredNode(path[i]).floor
            /\ Len(result.steps) = Len(path) - 1
            /\ \A i \in 1..(Len(path) - 1) :
                  /\ result.steps[i].from = path[i]
                  /\ result.steps[i].to = path[i + 1]
                  /\ path[i + 1] \in DOMAIN adjacency[path[i]]
                  /\ adjacency[path[i]][path[i + 1]] = result.steps[i].distance

\* a found route of at least two hops, asked for with an id spelled in another
\* case than the stored one
C18_Witness ==
    /\ IsFoundPath
    /\ Len(result.path) >= 3
    /\ lastCall.startId \notin StoredIds

\* one of the edges buildInterFloorEdges synthesizes, in either direction
IsSynthesizedInterFloor(m, n) ==
    \E i \in 1..(Len(FLOORS) - 1) :
        \E suffix \in Range(STAIRWELL_SUFFIXES) \cup Range(LIFT_VESTIBULE_SUFFIXES) :
            LET lower == FLOORS[i].prefix \o suffix
                upper == FLOORS[i + 1].prefix \o suffix
            IN  (m = lower /\ n = upper) \/ (m = upper /\ n = lower)

\* C19: in every found PathResult, a step is marked as a floor change exactly
\* when the floors of its two endpoint nodes differ; so no step between two
\* nodes of one floor is marked, and every step over a synthesized
\* inter-floor edge is marked.
C19_FloorChangeFlag ==
    IsFoundPath =>
        \A k \in 1..Len(result.steps) :
            LET step == result.steps[k]
            IN  /\ step.isFloorChange =
                       (StoredNode(step.from).floor # StoredNode(step.to).floor)
                /\ IsSynthesizedInterFloor(step.from, step.to) => step.isFloorChange

\* a found route with a step over a synthesized inter-floor edge and a step
\* between two nodes of one floor
C19_Witness ==
    /\ IsFoundPath
    /\ \E k \in 1..Len(result.steps) :
          IsSynthesizedInterFloor(result.steps[k].from, result.steps[k].to)
    /\ \E k \in 1..Len(result.steps) :
          StoredNode(result.steps[k].from).floor = StoredNode(result.steps[k].to).floor

\* the floors of the nodes of a path
FloorsOfPath(path) == {StoredNode(path[i]).floor : i \in 1..Len(path)}

\* C20: in every found PathResult, crossesFloors is true exactly when the
\* path's nodes lie on more than one floor, and floorsTraversed lists exactly
\* the floors of the path's nodes, each once, in ascending order.
C20_FloorsTraversed ==
    IsFoundPath =>
        LET floors == FloorsOfPath(result.path)
            listed == result.floorsTraversed
        IN  /\ result.crossesFloors = (Cardinality(floors) > 1)
            /\ Range(listed) = floors
            /\ Len(listed) = Cardinality(floors)
            /\ \A i, j \in 1..Len(listed) :
                  i < j => FloorRank(listed[i]) < FloorRank(listed[j])

\* a found route that starts on a higher floor than it ends on, so the floors
\* are listed in another order than they are visited
C20_Witness ==
    /\ IsFoundPath
    /\ result.crossesFloors
    /\ FloorRank(StoredNode(result.path[1]).floor)
          > FloorRank(StoredNode(result.path[Len(result.path)]).floor)


\* the raw edges of all floors, in the order assembly reads them
RECURSIVE RawEdgesFrom(_, _)
RawEdgesFrom(data, f) ==
    IF f > Len(data) THEN <<>> ELSE data[f].edges \o RawEdgesFrom(data, f + 1)

RawEdges == RawEdgesFrom(floorData, 1)

\* the ids the floor data lists
RECURSIVE RawNodeIdsFrom(_, _)
RawNodeIdsFrom(data, f) ==
    IF f > Len(data) THEN {}
    ELSE {data[f].nodes[i].id : i \in 1..Len(data[f].nodes)} \cup RawNodeIdsFrom(data, f + 1)

RawNodeIds == RawNodeIdsFrom(floorData, 1)

Assembled == lastCall.op # "initializeGraph"

HasEntry(m, n) == m \in DOMAIN adjacency /\ n \in DOMAIN adjacency[m]

\* C21: after assembly every adjacency key and every neighbour stored under
\* it is the id of a node of the node table; an input edge with a missing
\* source or target leaves no entry in either direction, and assembly goes
\* on: every node has its adjacency entry and every input edge with both
\* endpoints present is materialized.
C21_EndpointsExist ==
    Assembled =>
        /\ DOMAIN adjacency = DOMAIN nodeMap
        /\ DOMAIN nodeMap = RawNodeIds
        /\ \A m \in DOMAIN adjacency : DOMAIN adjacency[m] \subseteq DOMAIN nodeMap
        /\ \A k \in 1..Len(RawEdges) :
              LET e == RawEdges[k]
              IN  IF e.source \in RawNodeIds /\ e.target \in RawNodeIds
                  THEN HasEntry(e.source, e.target)
                  ELSE ~HasEntry(e.source, e.target) /\ ~HasEntry(e.target, e.source)

\* assembly has finished on floor data that lists an edge with a missing
\* target and an edge with a missing source before a valid edge
C21_Witness ==
    /\ lastCall = NoCall
    /\ \E i, j, k \in 1..Len(RawEdges) :
          /\ i < k /\ j < k
          /\ RawEdges[i].target \notin RawNodeIds /\ RawEdges[i].source \in RawNodeIds
          /\ RawEdges[j].source \notin RawNodeIds /\ RawEdges[j].target \in RawNodeIds
          /\ HasEntry(RawEdges[k].source, RawEdges[k].target)


\* the raw edge reads as bidirectional: its flag is not an explicit false
RawBidirectional(e) == ~("bidirectional" \in DOMAIN e /\ e.bidirectional = FALSE)

\* C22: after assembly, every input edge that is bidirectional and has both
\* endpoints present is traversable in both directions with one weight:
\* adjacency[source][target] and adjacency[target][source] both exist and
\* are equal.
C22_BidirectionalSymmetric ==
    Assembled =>
        \A k \in 1..Len(RawEdges) :
            LET e == RawEdges[k]
            IN  (RawBidirectional(e) /\ e.source \in RawNodeIds /\ e.target \in RawNodeIds)
                    => /\ HasEntry(e.source, e.target)
                       /\ HasEntry(e.target, e.source)
                       /\ adjacency[e.source][e.target] = adjacency[e.target][e.source]


StairwellSuffixes ==
    { <<"K","0","4","1">>, <<"K","1","2","1">>, <<"K","1","9","1">>, <<"K","2","6","2">> }

LiftLobbySuffixes ==
    { <<"K","0","4","2">>, <<"K","1","2","2">>, <<"K","1","9","2">>, <<"K","2","7","1">> }

\* the edges the claim expects: one per neighbouring pair of floors and
\* suffix whose lower and upper node both exist
ExpectedInterFloorEdges ==
    { [source        |-> FLOORS[i].prefix \o suffix,
       target        |-> FLOORS[i + 1].prefix \o suffix,
       bidirectional |-> TRUE,
       distance      |-> IF suffix \in StairwellSuffixes THEN 15 ELSE 10] :
          <<i, suffix>> \in
              { p \in (1..(Len(FLOORS) - 1)) \X (StairwellSuffixes \cup LiftLobbySuffixes) :
                    /\ FLOORS[p[1]].prefix \o p[2] \in DOMAIN nodeMap
                    /\ FLOORS[p[1] + 1].prefix \o p[2] \in DOMAIN nodeMap } }

\* an input edge lists the pair, in either direction
ListedPair(m, n) ==
    \E k \in 1..Len(RawEdges) :
        {RawEdges[k].source, RawEdges[k].target} = {m, n}

\* C23: inter-floor synthesis adds exactly one bidirectional edge per pair of
\* neighbouring floors and vertical-circulation suffix whose two nodes both
\* exist, of weight 15 for stairwells and 10 for lift lobbies, and nothing
\* else: no edge where a node is missing, and none between floors that are
\* not neighbours.
C23_InterFloorSynthesis ==
    Assembled =>
        LET synthesized == buildInterFloorEdges(nodeMap)
        IN  /\ Range(synthesized) = ExpectedInterFloorEdges
            /\ Len(synthesized) = Cardinality(ExpectedInterFloorEdges)
            /\ \A e \in ExpectedInterFloorEdges :
                  /\ HasEntry(e.source, e.target) /\ HasEntry(e.target, e.source)
                  /\ adjacency[e.source][e.target] = e.distance
                  /\ adjacency[e.target][e.source] = e.distance
            /\ \A m \in DOMAIN adjacency : \A n \in DOMAIN adjacency[m] :
                  LET apart == FloorRank(nodeMap[m].floor) - FloorRank(nodeMap[n].floor)
                  IN  (apart # 0 /\ ~ListedPair(m, n))
                          => /\ apart \in {-1, 1}
                             /\ \E e \in ExpectedInterFloorEdges :
                                   {e.source, e.target} = {m, n}

\* assembled: the stairwell exists on floors 1 and 3 but not on floor 2 and
\* is not bridged, while a lift lobby pair is linked with weight 10
C23_Witness ==
    /\ lastCall = NoCall
    /\ id1K041 \in DOMAIN nodeMap /\ id3K041 \in DOMAIN nodeMap
    /\ id2K041 \notin DOMAIN nodeMap
    /\ ~HasEntry(id1K041, id3K041)
    /\ HasEntry(id1K042, id2K042) /\ adjacency[id1K042][id2K042] = 10

\* assembled: a stairwell pair is linked with weight 15 in both directions
\* although the floor data lists the pair as a one-way edge of another weight
C23_WitnessOverride ==
    /\ lastCall = NoCall
    /\ ListedPair(id1K041, id2K041)
    /\ HasEntry(id1K041, id2K041) /\ adjacency[id1K041][id2K041] = 15
    /\ HasEntry(id2K041, id1K041) /\ adjacency[id2K041][id1K041] = 15


\* the raw nodes of all floors with the floor that lists them, in the order
\* assembly reads them
RECURSIVE ListedNodesFrom(_, _)
ListedNodesFrom(data, f) ==
    IF f > Len(data) THEN <<>>
    ELSE [i \in 1..Len(data[f].nodes) |->
             [id |-> data[f].nodes[i].id, floor |-> FLOORS[f].floorNum,
              raw |-> data[f].nodes[i]]]
         \o ListedNodesFrom(data, f + 1)

ListedNodes == ListedNodesFrom(floorData, 1)

\* the last input node that carries the id
LastListed(id) ==
    ListedNodes[CHOOSE k \in 1..Len(ListedNodes) :
                   /\ ListedNodes[k].id = id
                   /\ \A l \in (k + 1)..Len(ListedNodes) : ListedNodes[l].id # id]

\* a list of rooms holds each id at most once, with the table's record of it
OnlySurvivingRecords(rooms) ==
    /\ \A i, j \in 1..Len(rooms) : rooms[i].id = rooms[j].id => i = j
    /\ \A i \in 1..Len(rooms) :
          /\ rooms[i].roomType = nodeMap[rooms[i].id].roomType
          /\ rooms[i].floor = nodeMap[rooms[i].id].floor

\* C24: when two input nodes carry the same id the later one replaces the
\* earlier: after assembly the graph's record for the id is the later
\* node's, and findRoom, getAllRooms, getRoomsOnFloor, getRoomsByType and
\* findShortestPath neither return nor count the earlier node.
C24_LaterOverwrites ==
    Assembled =>
        /\ \A id \in RawNodeIds :
              /\ nodeMap[id].floor = LastListed(id).floor
              /\ Has(LastListed(id).raw, "room_type")
                    => nodeMap[id].roomType = LastListed(id).raw.room_type
        /\ lastCall.op \in {"findRoom", "getAllRooms", "getRoomsOnFloor", "getRoomsByType"}
              => OnlySurvivingRecords(result)
        /\ (lastCall.op = "findShortestPath" /\ result.found)
              => OnlySurvivingRecords(result.pathDetails)


\* following the predecessor map from id for k steps
RECURSIVE Follow(_, _, _)
Follow(previous, id, k) ==
    IF k = 0 \/ id = NullId THEN id ELSE Follow(previous, previous[id], k - 1)

\* every predecessor chain ends in null within as many steps as there are nodes
ChainAcyclic(previous) ==
    \A id \in DOMAIN previous :
        Follow(previous, id, Cardinality(DOMAIN previous)) = NullId

\* no unvisited node has a finite tentative distance
NoFiniteUnvisited(st) ==
    \A id \in Range(st.unvisited) : st.distances[id] = Infinity

\* the destination is unvisited and no unvisited node is nearer
DestinationIsMinimum(st, normalizedEnd) ==
    /\ normalizedEnd \in Range(st.unvisited)
    /\ st.distances[normalizedEnd] # Infinity
    /\ \A id \in Range(st.unvisited) :
          st.distances[id] = Infinity \/ st.distances[normalizedEnd] <= st.distances[id]

\* C25: findShortestPath terminates on every graph and arguments.  The loop
\* is left only when no unvisited node has a finite distance or the
\* destination is a minimum; an iteration that stays in the loop removes
\* exactly one node from the unvisited set; the predecessor chain never has
\* a cycle; and every started call returns.
C25_Terminates ==
    /\ [][/\ (search.pc = "loop" /\ search'.pc = "loop")
              => /\ Len(search'.st.unvisited) = Len(search.st.unvisited) - 1
                 /\ ~NoFiniteUnvisited(search.st)
          /\ (search.pc = "loop" /\ search'.pc = "walk")
              => \/ NoFiniteUnvisited(search.st)
                 \/ DestinationIsMinimum(search.st, search.normalizedEnd)]_vars
    /\ [](search.pc \in {"loop", "walk"} => ChainAcyclic(search.st.previous))
    /\ (search.pc # "idle") ~> (search.pc = "idle")

\* the backward walk has ended with a chain of three nodes after a search
\* that removed nodes from the unvisited set
C25_Witness ==
    /\ search.pc = "walk"
    /\ search.current = NullId
    /\ Len(search.path) >= 3
    /\ Len(search.st.unvisited) < Cardinality(DOMAIN search.st.distances)


\* the floors' raw edges next to what the normalizer makes of them
NormalizedPairs ==
    { [raw |-> floorData[f].edges[i], normalized |-> normalizeEdges(floorData, f)[i]] :
        <<f, i>> \in { p \in (1..Len(floorData)) \X (1..8) : p[2] <= Len(floorData[p[1]].edges) } }

Segments(labelRaw) ==
    LET parts == SplitLabel(labelRaw, <<>>)
    IN  [i \in 1..Len(parts) |-> Trim(parts[i])]

\* the first non-empty segment of a raw label, empty when it has none
FirstNonEmptySegment(labelRaw) ==
    LET filled == SelectSeq(Segments(labelRaw), LAMBDA seg : seg # <<>>)
    IN  IF filled = <<>> THEN <<>> ELSE filled[1]

\* the second segment of a raw label, its only segment when it has one
SecondOrOnlySegment(labelRaw) ==
    LET segs == Segments(labelRaw)
    IN  IF Len(segs) > 1 THEN segs[2] ELSE segs[1]

\* text is what follows the first space of label, trimmed
FollowsFirstSpace(text, label) ==
    \E i \in 1..Len(label) :
        /\ label[i] = " "
        /\ \A j \in 1..(i - 1) : label[j] # " "
        /\ text = Trim(SubSeq(label, i + 1, Len(label)))

HasSpace(label) == \E i \in 1..Len(label) : label[i] = " "

\* the name the precedence of the specification gives a raw node
FirstSegmentName(raw) ==
    IF Truthy(raw, "name") THEN raw.name
    ELSE IF Truthy(raw, "label_raw") /\ FirstNonEmptySegment(raw.label_raw) # <<>>
         THEN FirstNonEmptySegment(raw.label_raw)
    ELSE IF Truthy(raw, "label") /\ HasSpace(raw.label)
         THEN CHOOSE text \in {Trim(SubSeq(raw.label, i + 1, Len(raw.label))) :
                                   i \in 1..Len(raw.label)} :
                  FollowsFirstSpace(text, raw.label)
    ELSE <<>>

\* C27 as stated: a node's name is the explicit name, else the first
\* non-empty segment of the raw label split on newlines or dash delimiters,
\* else the text following the first whitespace-delimited token of the
\* generic label, else the empty string.
C27_FirstNonEmptySegment ==
    Assembled =>
        \A k \in 1..Len(ListedNodes) :
            allNodes[k].name = FirstSegmentName(ListedNodes[k].raw)

\* the raw label decides the name, the generic label decides it, or neither
RawLabelDecides(raw) ==
    /\ ~Truthy(raw, "name")
    /\ Truthy(raw, "label_raw")
    /\ SecondOrOnlySegment(raw.label_raw) # <<>>

LabelDecides(raw) ==
    /\ ~Truthy(raw, "name")
    /\ ~RawLabelDecides(raw)
    /\ Truthy(raw, "label")

\* C27 (amended): a node's name is the explicit name when it is present
\* and non-empty; else the trimmed second segment of the raw label split on
\* newlines or whitespace-surrounded dashes (its only segment when the split
\* gives one) when that is non-empty; else, from a non-empty generic label,
\* the trimmed text after its first space, the whole label when it has no
\* space; else the empty string.
C27_NamePrecedence ==
    Assembled =>
        \A k \in 1..Len(ListedNodes) :
            LET raw  == ListedNodes[k].raw
                name == allNodes[k].name
            IN  /\ Truthy(raw, "name") => name = raw.name
                /\ RawLabelDecides(raw) => name = SecondOrOnlySegment(raw.label_raw)
                /\ (LabelDecides(raw) /\ HasSpace(raw.label))
                      => FollowsFirstSpace(name, raw.label)
                /\ (LabelDecides(raw) /\ ~HasSpace(raw.label)) => name = raw.label
                /\ (~Truthy(raw, "name") /\ ~RawLabelDecides(raw) /\ ~LabelDecides(raw))
                      => name = <<>>

\* assembled from nodes named by an explicit name, by the second segment of
\* a raw label whose first segment differs, by a generic label after a raw
\* label with an empty second segment, by a generic label without a space,
\* and by nothing
C27_Witness ==
    /\ lastCall = NoCall
    /\ \E k \in 1..Len(ListedNodes) :
          Truthy(ListedNodes[k].raw, "name") /\ Has(ListedNodes[k].raw, "label_raw")
    /\ \E k \in 1..Len(ListedNodes) :
          /\ RawLabelDecides(ListedNodes[k].raw)
          /\ allNodes[k].name # Segments(ListedNodes[k].raw.label_raw)[1]
    /\ \E k \in 1..Len(ListedNodes) :
          /\ LabelDecides(ListedNodes[k].raw)
          /\ Truthy(ListedNodes[k].raw, "label_raw")
          /\ allNodes[k].name # <<>>
    /\ \E k \in 1..Len(ListedNodes) :
          LabelDecides(ListedNodes[k].raw) /\ ~HasSpace(ListedNodes[k].raw.label)
    /\ \E k \in 1..Len(ListedNodes) :
          /\ ~Truthy(ListedNodes[k].raw, "name")
          /\ ~Has(ListedNodes[k].raw, "label_raw")
          /\ ~Has(ListedNodes[k].raw, "label")


\* C28: in every found PathResult, crossesFloors is true if and only if at
\* least one entry of steps has isFloorChange = true.
C28_SummaryFlagAgrees ==
    IsFoundPath =>
        (result.crossesFloors = TRUE)
            = (\E k \in 1..Len(result.steps) : result.steps[k].isFloorChange = TRUE)

\* a found route that crosses floors, with a floor-change step among
\* same-floor steps
C28_Witness ==
    /\ IsFoundPath
    /\ result.crossesFloors
    /\ Len(result.steps) >= 3
    /\ \E k \in 1..Len(result.steps) : result.steps[k].isFloorChange
    /\ \E k \in 1..Len(result.steps) : ~result.steps[k].isFloorChange


\* the node findShortestPath resolves an id string to
ResolvedNode(id) == nodeMap[ResolveId(id)]

\* C29: start-node lookup is consistent across the query layer.  For every
\* id string that findShortestPath resolves to a node n, getFloorForRoom
\* returns n.floor and not null, and findNearestOfTypeSameFloor searches the
\* matching rooms of n.floor first: it returns the nearest of them when one
\* is reachable, and only otherwise the result of findNearestOfType.
C29_LookupConsistent ==
    /\ (lastCall.op = "getFloorForRoom" /\ ResolveId(lastCall.roomId) # NullId)
          => (~IsNull(result) /\ result.value = ResolvedNode(lastCall.roomId).floor)
    /\ (lastCall.op = "findNearestOfTypeSameFloor" /\ ResolveId(lastCall.startId) # NullId)
          => LET sameFloorRooms == getRoomsByTypeOnFloor(lastCall.roomType,
                                       ResolvedNode(lastCall.startId).floor)
                 bestPath == BestPath(lastCall.startId, sameFloorRooms, NullResult)
             IN  IF ~IsNull(bestPath) THEN result = bestPath
                 ELSE result = findNearestOfType(lastCall.startId, lastCall.roomType)


\* C30: the per-IP rate limit holds under every interleaving of concurrent
\* requests.  For any single IP, the number of POST requests admitted (not
\* answered with 429) within one hourly window never exceeds
\* MAX_MESSAGES_PER_HOUR, and within one daily window never exceeds
\* MAX_MESSAGES_PER_DAY, even when several requests of that IP are in flight
\* before any of them finishes streaming.
C30_RateLimitHolds ==
    \A ip \in IPs :
        /\ admitted[ip].hour <= MAX_MESSAGES_PER_HOUR
        /\ admitted[ip].day <= MAX_MESSAGES_PER_DAY

====
